---- MODULE Spec2Model ----
(***************************************************************************)
(* Observer (mr-Observer): a JSON data container that emits synchronous    *)
(* set / unset / insert / move / remove events keyed by paths, with exact  *)
(* and wildcard subscriptions.  The model follows the array-aware version  *)
(* of the class (src/unnamed/part_001).                                    *)
(*                                                                         *)
(* JavaScript strings are sequences of one-character strings, so that      *)
(* split('.'), join('.'), toString, parseInt and string concatenation are  *)
(* computed, not assumed.  A JavaScript string-or-number (a path argument, *)
(* a path segment, a Map key) is a record [num, n, s].  A JavaScript value *)
(* is a record tagged by t: "undef", "null", "num", "str", "obj", "arr".   *)
(* Objects and arrays hold their own enumerable properties in for-in       *)
(* order (index keys ascending, then the other keys in insertion order);   *)
(* an array also has its length, and a hole is an index without a key.     *)
(***************************************************************************)
EXTENDS Integers, Sequences, FiniteSets, TLC

VARIABLES data, pathCache, eventsCache, subs, nextId, log, last, steps, limit

vars == <<data, pathCache, eventsCache, subs, nextId, log, last, steps, limit>>

(***************************************************************************)
(* Bounds of the model.                                                    *)
(***************************************************************************)
\* Calls per behaviour: of the whole machine, of the data-tree calls alone and
\* of the array calls alone.
MaxSteps == 2
MaxTreeSteps == 1
MaxArraySteps == 1
\* Live subscriptions.
MaxSubs == 2
\* Index arguments run over -(MaxIndex + 1) .. MaxIndex.
MaxIndex == 3

MaxSubSteps == 3

MaxDeepSubs == 4

MaxReenteredSteps == 1

(***************************************************************************)
(* Strings.                                                                *)
(***************************************************************************)
Digits == <<"0", "1", "2", "3", "4", "5", "6", "7", "8", "9">>

IsDigit(c) == \E i \in 1..10 : Digits[i] = c

DigitVal(c) == (CHOOSE i \in 1..10 : Digits[i] = c) - 1

RECURSIVE NatToStr(_)
NatToStr(n) ==
  IF n < 10 THEN <<Digits[n + 1]>>
  ELSE NatToStr(n \div 10) \o <<Digits[(n % 10) + 1]>>

\* Number.prototype.toString, and the string a number becomes in a
\* concatenation or as a property key.
IntToStr(n) == IF n < 0 THEN <<"-">> \o NatToStr(-n) ELSE NatToStr(n)

RECURSIVE DigitRun(_, _)
\* The number of digits s holds from position i on.
DigitRun(s, i) ==
  IF i > Len(s) \/ ~IsDigit(s[i]) THEN 0 ELSE 1 + DigitRun(s, i + 1)

RECURSIVE DigitsValue(_, _, _)
DigitsValue(s, i, k) ==
  IF k = 0 THEN 0
  ELSE 10 * DigitsValue(s, i, k - 1) + DigitVal(s[i + k - 1])

\* parseInt(s, 10): an optional sign, then the longest run of digits; NaN
\* when there is no digit.
ParseInt(s) ==
  LET neg == Len(s) > 0 /\ s[1] = "-"
      from == IF Len(s) > 0 /\ s[1] \in {"-", "+"} THEN 2 ELSE 1
      k == DigitRun(s, from)
  IN  IF k = 0 THEN [nan |-> TRUE, n |-> 0]
      ELSE [nan |-> FALSE,
            n |-> IF neg THEN 0 - DigitsValue(s, from, k)
                  ELSE DigitsValue(s, from, k)]

RECURSIVE SplitFrom(_, _, _)
SplitFrom(s, i, cur) ==
  IF i > Len(s) THEN <<cur>>
  ELSE IF s[i] = "." THEN <<cur>> \o SplitFrom(s, i + 1, <<>>)
  ELSE SplitFrom(s, i + 1, Append(cur, s[i]))

\* String.prototype.split('.')
Split(s) == SplitFrom(s, 1, <<>>)

RECURSIVE Join(_)
\* Array.prototype.join('.') of a sequence of strings
Join(ss) ==
  IF Len(ss) = 0 THEN <<>>
  ELSE IF Len(ss) = 1 THEN ss[1]
  ELSE ss[1] \o <<".">> \o Join(Tail(ss))

(***************************************************************************)
(* String-or-number values: path arguments, path segments, Map keys.       *)
(***************************************************************************)
S(s) == [num |-> FALSE, n |-> 0, s |-> s]

N(n) == [num |-> TRUE, n |-> n, s |-> <<>>]

\* ToString of a string-or-number: what `x + ''` and `node[x]` use.
ToStr(x) == IF x.num THEN IntToStr(x.n) ELSE x.s

\* ToBoolean of a string-or-number: 0 and '' are falsy.
Truthy(x) == IF x.num THEN x.n # 0 ELSE Len(x.s) > 0

\* path + (path ? '.' : '') + key
Deeper(path, key) ==
  S(ToStr(path) \o (IF Truthy(path) THEN <<".">> ELSE <<>>) \o key)

\* The dotted form of a segment sequence.
PathStr(parts) == Join([i \in 1..Len(parts) |-> ToStr(parts[i])])

(***************************************************************************)
(* Values.                                                                 *)
(***************************************************************************)
Undef == [t |-> "undef"]

Null == [t |-> "null"]

Num(n) == [t |-> "num", v |-> n]

\* The number NaN.
NaN == [t |-> "nan"]

StrV(s) == [t |-> "str", s |-> s]

Obj(keys, vals) == [t |-> "obj", len |-> 0, keys |-> keys, vals |-> vals]

\* typeof(v) === 'object' && v instanceof Object
IsObject(v) == v.t \in {"obj", "arr"}

IsArray(v) == v.t = "arr"

\* A string-or-number as a value (an index handed to a subscriber).
ValOf(x) == IF x.num THEN Num(x.n) ELSE StrV(x.s)

\* ToIntegerOrInfinity of an index that is a number or a numeric string.
ToInt(x) == IF x.num THEN x.n ELSE ParseInt(x.s).n

\* Whether a comparison with a number sees a number (not NaN).
IsNumeric(x) == x.num \/ ~ParseInt(x.s).nan

\* A canonical array index: the string of a non-negative integer.
IsIndexKey(k) ==
  LET p == ParseInt(k) IN ~p.nan /\ p.n >= 0 /\ IntToStr(p.n) = k

KeyPos(keys, k) ==
  IF \E i \in 1..Len(keys) : keys[i] = k
  THEN CHOOSE i \in 1..Len(keys) : keys[i] = k
  ELSE 0

\* node.hasOwnProperty(k)
HasOwn(node, k) == IsObject(node) /\ KeyPos(node.keys, k) > 0

\* node[k] of a value that is neither null nor undefined
GetKey(node, k) ==
  IF HasOwn(node, k) THEN node.vals[KeyPos(node.keys, k)] ELSE Undef

GetProp(node, part) == GetKey(node, ToStr(part))

\* Where a new own property goes in for-in order.
InsertPos(keys, k) ==
  IF IsIndexKey(k)
  THEN 1 + Cardinality({i \in 1..Len(keys) :
                          IsIndexKey(keys[i]) /\ ParseInt(keys[i]).n < ParseInt(k).n})
  ELSE Len(keys) + 1

InsertAt(seq, pos, x) ==
  SubSeq(seq, 1, pos - 1) \o <<x>> \o SubSeq(seq, pos, Len(seq))

RemoveAt(seq, pos) == SubSeq(seq, 1, pos - 1) \o SubSeq(seq, pos + 1, Len(seq))

\* node[k] = v on an object or array
SetKey(node, k, v) ==
  LET pos == KeyPos(node.keys, k)
      at == InsertPos(node.keys, k)
      grown == IF IsArray(node) /\ IsIndexKey(k) /\ ParseInt(k).n >= node.len
               THEN ParseInt(k).n + 1 ELSE node.len
  IN  IF pos > 0
      THEN [node EXCEPT !.vals[pos] = v]
      ELSE [node EXCEPT !.keys = InsertAt(node.keys, at, k),
                        !.vals = InsertAt(node.vals, at, v),
                        !.len = grown]

\* delete node[k]
DelKey(node, k) ==
  LET pos == KeyPos(node.keys, k)
  IN  IF pos = 0 THEN node
      ELSE [node EXCEPT !.keys = RemoveAt(node.keys, pos),
                        !.vals = RemoveAt(node.vals, pos)]

\* The slots of an array, index 0 first; a hole reads as undefined.
Items(a) == [i \in 1..a.len |-> GetKey(a, IntToStr(i - 1))]

IsHole(a, i) == ~HasOwn(a, IntToStr(i))

RECURSIVE Pick(_, _)
\* The positions from i on that are not holes.
Pick(holes, i) ==
  IF i > Len(holes) THEN <<>>
  ELSE IF holes[i] THEN Pick(holes, i + 1)
  ELSE <<i>> \o Pick(holes, i + 1)

\* The positions of the properties of a that are not array indices.
Others(a) ==
  SelectSeq([i \in 1..Len(a.keys) |-> i], LAMBDA i : ~IsIndexKey(a.keys[i]))

\* The array with the given slots, those at the positions kept, and the
\* properties of a at the positions other.
Built(a, items, kept, other) ==
  [t |-> "arr", len |-> Len(items),
   keys |-> [i \in 1..Len(kept) |-> IntToStr(kept[i] - 1)]
            \o [i \in 1..Len(other) |-> a.keys[other[i]]],
   vals |-> [i \in 1..Len(kept) |-> items[kept[i]]]
            \o [i \in 1..Len(other) |-> a.vals[other[i]]]]

\* The array with the given slots (holes kept where `holes` says so) and
\* the non-index properties of a.
Rebuild(a, items, holes) == Built(a, items, Pick(holes, 1), Others(a))

Holes(a) == [i \in 1..a.len |-> IsHole(a, i - 1)]

\* An array literal.
Arr(items) ==
  Rebuild([t |-> "arr", len |-> 0, keys |-> <<>>, vals |-> <<>>],
          items, [i \in 1..Len(items) |-> FALSE])

\* Array.prototype.splice(start, 1)
SpliceOut(a, start) ==
  LET rel == ToInt(start)
      at == IF rel < 0 THEN (IF a.len + rel < 0 THEN 0 ELSE a.len + rel)
            ELSE IF rel > a.len THEN a.len ELSE rel
  IN  IF at >= a.len THEN a
      ELSE Rebuild(a, RemoveAt(Items(a), at + 1), RemoveAt(Holes(a), at + 1))

\* Array.prototype.splice(start, 0, v)
SpliceIn(a, start, v) ==
  LET at == IF start < 0 THEN (IF a.len + start < 0 THEN 0 ELSE a.len + start)
            ELSE IF start > a.len THEN a.len ELSE start
  IN  Rebuild(a, InsertAt(Items(a), at + 1, v), InsertAt(Holes(a), at + 1, FALSE))

\* Array.prototype.unshift(v)
Unshift(a, v) == SpliceIn(a, 0, v)

\* Array.prototype.push(v)
Push(a, v) == SpliceIn(a, a.len, v)

(***************************************************************************)
(* The running state of one call: the data tree, the path cache, the       *)
(* events cache, the events emitted so far, the number of changes          *)
(* dispatched so far and whether the call ended in a TypeError.            *)
(***************************************************************************)
Start(d, cache) ==
  [data |-> d, cache |-> cache, trie |-> eventsCache, log |-> <<>>, chg |-> 0,
   threw |-> FALSE]

NoCache == [k \in {} |-> <<>>]

CacheSet(cache, k, v) ==
  [x \in (DOMAIN cache) \cup {k} |-> IF x = k THEN v ELSE cache[x]]

RECURSIVE ResolveFrom(_, _, _)
\* The loop of _makePathParts: a segment under an array becomes an integer
\* when parseInt makes one of it; the walk stops at the first null or
\* undefined node and leaves the remaining segments as split.
ResolveFrom(node, strs, i) ==
  IF i > Len(strs) THEN <<>>
  ELSE LET p == ParseInt(strs[i])
           part == IF IsArray(node) /\ ~p.nan THEN N(p.n) ELSE S(strs[i])
           next == GetProp(node, part)
       IN  IF next.t \in {"null", "undef"}
           THEN <<part>> \o [j \in 1..(Len(strs) - i) |-> S(strs[i + j])]
           ELSE <<part>> \o ResolveFrom(next, strs, i + 1)

\* this._pathCache.set(key, parts); return parts;
Cached(st, key, parts) ==
  [st |-> [st EXCEPT !.cache = CacheSet(@, key, parts)], parts |-> parts]

\* _makePathParts(path): the cached segments of path, resolved against the
\* current data on a miss.  An integer path is looked up as a number and
\* stored under its string.
MakePathParts(st, path) ==
  IF path \in DOMAIN st.cache
  THEN [st |-> st, parts |-> st.cache[path]]
  ELSE IF path = S(<<>>) THEN Cached(st, path, <<>>)
  ELSE Cached(st, S(ToStr(path)), ResolveFrom(st.data, Split(ToStr(path)), 1))

(***************************************************************************)
(* Events.  An event name is [q, pat, kind]: the string pat + ':' + kind   *)
(* when q, the bare kind otherwise.                                        *)
(***************************************************************************)
Kinds == {"set", "unset", "insert", "move", "remove"}

Qualified(pat, kind) == [q |-> TRUE, pat |-> pat, kind |-> kind]

CatchAll(kind) == [q |-> FALSE, pat |-> <<>>, kind |-> kind]

Star == S(<<"*">>)

\* this.emit(name, pathParts, value, old, to); at is the data a handler of
\* the event finds.
Emit(st, name, parts, a1, a2, a3) ==
  [st EXCEPT !.log = Append(@, [name |-> name, parts |-> parts, a1 |-> a1,
                                a2 |-> a2, a3 |-> a3, chg |-> st.chg,
                                at |-> st.data])]

\* path ? part + '.' + path : part
Longer(part, path) ==
  IF Truthy(path) THEN S(ToStr(part) \o <<".">> \o ToStr(path)) ELSE part

RECURSIVE EmitWildcardDeeper(_, _, _, _, _)
RECURSIVE EmitWildcardDeeperStarFirst(_, _, _, _, _)
\* A variant that takes the wildcard branch before the specific one.
EmitWildcardDeeperStarFirst(trie, node, path, pathParts, depth) ==
  (IF node # <<>> /\ trie[node].end # 0 /\ depth - 1 = Len(pathParts)
   THEN <<ToStr(path)>> ELSE <<>>)
  \o (IF Append(node, Star) \in DOMAIN trie
      THEN EmitWildcardDeeperStarFirst(trie, Append(node, Star), Longer(Star, path),
                                       pathParts, depth + 1)
      ELSE <<>>)
  \o (IF depth <= Len(pathParts)
         /\ Append(node, pathParts[Len(pathParts) - depth + 1]) \in DOMAIN trie
      THEN EmitWildcardDeeperStarFirst(trie,
             Append(node, pathParts[Len(pathParts) - depth + 1]),
             Longer(pathParts[Len(pathParts) - depth + 1], path), pathParts, depth + 1)
      ELSE <<>>)

\* _emitWildcardDeeper: the event paths it emits, in order.  node is the
\* key sequence of a node of the events cache (<<>> the root, which has no
\* end counter); path is the event path built so far, a string or the
\* number that the last segment is.
EmitWildcardDeeper(trie, node, path, pathParts, depth) ==
  (IF node # <<>> /\ trie[node].end # 0 /\ depth - 1 = Len(pathParts)
   THEN <<ToStr(path)>> ELSE <<>>)
  \o (IF depth <= Len(pathParts)
         /\ Append(node, pathParts[Len(pathParts) - depth + 1]) \in DOMAIN trie
      THEN EmitWildcardDeeper(trie, Append(node, pathParts[Len(pathParts) - depth + 1]),
             Longer(pathParts[Len(pathParts) - depth + 1], path), pathParts, depth + 1)
      ELSE <<>>)
  \o (IF Append(node, Star) \in DOMAIN trie
      THEN EmitWildcardDeeper(trie, Append(node, Star), Longer(Star, path),
                              pathParts, depth + 1)
      ELSE <<>>)

RECURSIVE EmitEach(_, _, _, _, _, _, _, _)
\* The qualified events pats[i..], in order.
EmitEach(st, pats, i, type, parts, a1, a2, a3) ==
  IF st.threw \/ i > Len(pats) THEN st
  ELSE EmitEach(Emit(st, Qualified(pats[i], type), parts, a1, a2, a3),
                pats, i + 1, type, parts, a1, a2, a3)

\* A variant that emits the catch-all event before the qualified ones.
EmitResolvedCatchAllFirst(mp, type, a1, a2, a3) ==
  [EmitEach(Emit(mp.st, CatchAll(type), mp.parts, a1, a2, a3),
            EmitWildcardDeeper(mp.st.trie, <<>>, S(<<>>), mp.parts, 1),
            1, type, mp.parts, a1, a2, a3)
   EXCEPT !.chg = @ + 1]

\* The body of _emitWildcard once the path is resolved: the qualified
\* events of every matching subscribed pattern, then the catch-all event.
EmitResolved(mp, type, a1, a2, a3) ==
  [Emit(EmitEach(mp.st, EmitWildcardDeeper(mp.st.trie, <<>>, S(<<>>), mp.parts, 1),
                 1, type, mp.parts, a1, a2, a3),
        CatchAll(type), mp.parts, a1, a2, a3)
   EXCEPT !.chg = @ + 1]

\* _emitWildcard(path, type, value, old, to)
EmitWildcard(st, path, type, a1, a2, a3) ==
  IF st.threw THEN st
  ELSE EmitResolved(MakePathParts(st, path), type, a1, a2, a3)

(***************************************************************************)
(* The data tree.  A node that the code holds by reference is named here   *)
(* by its location: the property keys that lead to it from the root.       *)
(***************************************************************************)
RECURSIVE NodeAt(_, _)
NodeAt(root, loc) ==
  IF Len(loc) = 0 THEN root ELSE NodeAt(GetKey(root, loc[1]), Tail(loc))

RECURSIVE SetAtLoc(_, _, _, _)
\* node[k] = v for the node at loc
SetAtLoc(root, loc, k, v) ==
  IF Len(loc) = 0 THEN SetKey(root, k, v)
  ELSE SetKey(root, loc[1], SetAtLoc(GetKey(root, loc[1]), Tail(loc), k, v))

RECURSIVE PutAtLoc(_, _, _)
\* The tree with the node at loc replaced by node.
PutAtLoc(root, loc, node) ==
  IF Len(loc) = 0 THEN node
  ELSE SetKey(root, loc[1], PutAtLoc(GetKey(root, loc[1]), Tail(loc), node))

LocOf(parts) == [i \in 1..Len(parts) |-> ToStr(parts[i])]

Front(seq) == SubSeq(seq, 1, Len(seq) - 1)

Last(seq) == seq[Len(seq)]

RECURSIVE Walk(_, _, _, _)
\* for (i ...) { node = node[parts[i]]; if (node === undefined) return; }
\* over parts[i..upto]: "ok" with the node reached, "undef" on the early
\* return, "throw" when a property of null is read.
Walk(node, parts, i, upto) ==
  IF i > upto THEN [r |-> "ok", node |-> node]
  ELSE IF node.t = "null" THEN [r |-> "throw", node |-> Undef]
  ELSE LET next == GetProp(node, parts[i])
       IN  IF next = Undef THEN [r |-> "undef", node |-> Undef]
           ELSE Walk(next, parts, i + 1, upto)


\* The outcome of resolving a path and walking the data along it, short of
\* the last `short` segments.
WalkTo(mp, root, short) ==
  [st |-> mp.st, parts |-> mp.parts,
   r |-> Walk(root, mp.parts, 1, Len(mp.parts) - short).r,
   node |-> Walk(root, mp.parts, 1, Len(mp.parts) - short).node]

(***************************************************************************)
(* Diff engine.                                                            *)
(***************************************************************************)
RECURSIVE CheckSet(_, _, _, _)
\* data !== old, for two values not both objects: NaN differs from every
\* value, itself included.
StrictNe(a, b) == a # b \/ a.t = "nan" \/ b.t = "nan"

RECURSIVE CheckSetKeys(_, _, _, _, _)
\* for (let key in data) this._checkSet(pathDeeper, data[key], old[key])
CheckSetKeys(st, path, d, old, i) ==
  IF st.threw \/ i > Len(d.keys) THEN st
  ELSE CheckSetKeys(CheckSet(st, Deeper(path, d.keys[i]), d.vals[i],
                             IF IsObject(old) THEN GetKey(old, d.keys[i]) ELSE Undef),
                    path, d, old, i + 1)

\* A variant that also announces an object written over an object.
CheckSetOwnAlways(st, path, d, old) ==
  IF (IsObject(d) /\ IsObject(old)) \/ (d # old)
  THEN EmitWildcard(st, path, "set", d, old, Undef)
  ELSE st

\* The event of the node itself, after those of its children.
CheckSetOwn(st, path, d, old) ==
  IF StrictNe(d, old) /\ (\/ (IsObject(d) /\ ~IsObject(old))
                 \/ (~IsObject(d) /\ IsObject(old))
                 \/ (~IsObject(d) /\ ~IsObject(old)))
  THEN EmitWildcard(st, path, "set", d, old, Undef)
  ELSE st

\* _checkSet(path, data, old)
CheckSet(st, path, d, old) ==
  IF st.threw THEN st
  ELSE CheckSetOwn(IF IsObject(d) THEN CheckSetKeys(st, path, d, old, 1) ELSE st,
                   path, d, old)

RECURSIVE CheckUnset(_, _, _, _)
RECURSIVE CheckUnsetKeys(_, _, _, _, _)
\* for (let key in old) this._checkUnset(pathDeeper, old[key], data[key])
CheckUnsetKeys(st, path, old, d, i) ==
  IF st.threw \/ i > Len(old.keys) THEN st
  ELSE CheckUnsetKeys(CheckUnset(st, Deeper(path, old.keys[i]), old.vals[i],
                                 IF IsObject(d) THEN GetKey(d, old.keys[i]) ELSE Undef),
                      path, old, d, i + 1)

\* The event of the node itself, after those of its children.
CheckUnsetOwn(st, path, old, d) ==
  IF d = Undef THEN EmitWildcard(st, path, "unset", old, Undef, Undef) ELSE st

\* _checkUnset(path, old, data)
CheckUnset(st, path, old, d) ==
  IF st.threw THEN st
  ELSE CheckUnsetOwn(IF IsObject(old) THEN CheckUnsetKeys(st, path, old, d, 1) ELSE st,
                     path, old, d)

\* parseInt(key, 10) as a value
ParseIntVal(k) == IF ParseInt(k).nan THEN [t |-> "nan"] ELSE Num(ParseInt(k).n)

\* node[key] = value for the node at loc
Write(st, loc, key, v) == [st EXCEPT !.data = SetAtLoc(@, loc, key, v)]

RECURSIVE PatchNode(_, _, _, _)
RECURSIVE PatchUpdate(_, _, _, _, _, _)
RECURSIVE PatchAdd(_, _, _, _, _)
\* One round of the first loop of _patchNode: key is a key of the node,
\* dk is data[key], current is node[key].
PatchExisting(st, path, loc, key, dk, current) ==
  IF dk = Undef THEN st
  ELSE IF IsObject(current)
  THEN IF IsObject(dk)
       THEN PatchNode(st, Deeper(path, key), Append(loc, key), dk)
       ELSE EmitWildcard(CheckUnset(Write(st, loc, key, dk), Deeper(path, key), current, dk),
                         Deeper(path, key), "set", dk, current, Undef)
  ELSE CheckSet(Write(st, loc, key, dk), Deeper(path, key), dk, current)

\* update existing data first: for (let key in node), over the keys the
\* node has when the loop starts
PatchUpdate(st, path, loc, d, keys0, i) ==
  IF st.threw \/ i > Len(keys0) THEN st
  ELSE PatchUpdate(PatchExisting(st, path, loc, keys0[i], GetKey(d, keys0[i]),
                                 GetKey(NodeAt(st.data, loc), keys0[i])),
                   path, loc, d, keys0, i + 1)

\* if (Array.isArray(node)) this._emitWildcard(path, 'insert', value, parseInt(key, 10))
PatchInserted(st, path, isArr, value, key) ==
  IF isArr THEN EmitWildcard(st, path, "insert", value, ParseIntVal(key), Undef)
  ELSE st

\* One round of the second loop of _patchNode, for a key the node lacks.
PatchNew(st, path, loc, key, value, isArr) ==
  PatchInserted(CheckSet(Write(st, loc, key, value), Deeper(path, key), value, Undef),
                path, isArr, value, key)

\* add new data: for (let key in data)
PatchAdd(st, path, loc, d, i) ==
  IF st.threw \/ i > Len(d.keys) THEN st
  ELSE PatchAdd(IF HasOwn(NodeAt(st.data, loc), d.keys[i]) THEN st
                ELSE PatchNew(st, path, loc, d.keys[i], d.vals[i],
                              IsArray(NodeAt(st.data, loc))),
                path, loc, d, i + 1)

\* _patchNode(path, node, data), node being the node at loc
PatchNode(st, path, loc, d) ==
  IF st.threw THEN st
  ELSE PatchAdd(PatchUpdate(st, path, loc, d, NodeAt(st.data, loc).keys, 1),
                path, loc, d, 1)

(***************************************************************************)
(* Mutation entry points.  Each takes the state at the call and yields the *)
(* state at its return.  A call that has thrown runs no further step.      *)
(***************************************************************************)
Threw(st) == [st EXCEPT !.threw = TRUE]

RECURSIVE EmitInserts(_, _, _, _, _)
RECURSIVE EmitInsertsDescending(_, _, _, _, _)
\* A variant that announces the new slots highest index first.
EmitInsertsDescending(st, arrayPath, loc, i, len) ==
  IF st.threw \/ i >= len THEN st
  ELSE EmitWildcard(EmitInsertsDescending(st, arrayPath, loc, i + 1, len),
                    arrayPath, "insert",
                    GetKey(NodeAt(st.data, loc), IntToStr(i)), Num(i), Undef)

\* let i = nodeLength; while (i++ < node.length) emit insert(node[i-1], i-1)
EmitInserts(st, arrayPath, loc, i, len) ==
  IF st.threw \/ i >= len THEN st
  ELSE EmitInserts(
         EmitWildcard(st, arrayPath, "insert",
                      GetKey(NodeAt(st.data, loc), IntToStr(i)), Num(i), Undef),
         arrayPath, loc, i + 1, len)

\* if (nodeLength !== -1) { ... } at the end of set
SetInserts(st, parts, nodeLength) ==
  IF nodeLength # 0 - 1
  THEN EmitInserts(st, S(PathStr(Front(parts))), LocOf(Front(parts)), nodeLength,
                   NodeAt(st.data, LocOf(Front(parts))).len)
  ELSE st

\* this._checkUnset(path, old, data); this._checkSet(path, data, old);
SetDiff(st, path, d, old) ==
  CheckSet(CheckUnset(st, path, old, d), path, d, old)

\* this.data = data, or node[parts[parts.length - 1]] = data
SetWrite(st, path, parts, d) ==
  IF path = S(<<>>) THEN [st EXCEPT !.data = d]
  ELSE Write(st, LocOf(Front(parts)), ToStr(Last(parts)), d)

\* set, from the point where the parent node is known to be an object.
SetAtNode(st, parts, node, path, d) ==
  SetInserts(SetDiff(SetWrite(st, path, parts, d), path, d,
                     IF path = S(<<>>) THEN st.data ELSE GetProp(node, Last(parts))),
             parts,
             IF path # S(<<>>) /\ IsArray(node) THEN node.len ELSE 0 - 1)

\* A variant of set that emits a set event where the walk gives up.
SetWalkedAnyway(w, path, d) ==
  IF w.r = "throw" THEN Threw(w.st)
  ELSE IF w.r = "undef" \/ ~IsObject(w.node)
  THEN EmitWildcard(w.st, path, "set", d, Undef, Undef)
  ELSE SetAtNode(w.st, w.parts, w.node, path, d)

\* set, after the walk to the parent node.
SetWalked(w, path, d) ==
  IF w.r = "throw" THEN Threw(w.st)
  ELSE IF w.r = "undef" \/ ~IsObject(w.node) THEN w.st
  ELSE SetAtNode(w.st, w.parts, w.node, path, d)

\* A variant of set that writes nothing.
SetNoWrite(st, path, d) ==
  IF path = S(<<>>) /\ ~IsObject(d) THEN st
  ELSE MakePathParts(st, path).st

\* set(path, data)
Set(st, path, d) ==
  IF path = S(<<>>) /\ ~IsObject(d) THEN st
  ELSE SetWalked(WalkTo(MakePathParts(st, path), st.data, 1), path, d)

RECURSIVE EmitMovesDown(_, _, _, _, _)
RECURSIVE EmitMovesDownSwapped(_, _, _, _, _)
\* A variant that reports the following elements as moving up.
EmitMovesDownSwapped(st, path, loc, i, index) ==
  IF st.threw \/ i <= index THEN st
  ELSE EmitMovesDownSwapped(
         EmitWildcard(st, path, "move",
                      GetKey(NodeAt(st.data, loc), IntToStr(i - 1)), Num(i - 1), Num(i)),
         path, loc, i - 1, index)

\* let i = node.length; while (i-- > index) emit move(node[i], i + 1, i)
EmitMovesDown(st, path, loc, i, index) ==
  IF st.threw \/ i <= index THEN st
  ELSE EmitMovesDown(
         EmitWildcard(st, path, "move",
                      GetKey(NodeAt(st.data, loc), IntToStr(i - 1)), Num(i), Num(i - 1)),
         path, loc, i - 1, index)

\* if (index < node.length) { ... } after the splice
MovesDown(st, path, loc, len, index) ==
  IF IsNumeric(index) /\ ToInt(index) < len
  THEN EmitMovesDown(st, path, loc, len, ToInt(index))
  ELSE st

\* unset of an array item, after node.splice(index, 1)
UnsetSpliced(st, arrayPath, loc, index, old) ==
  EmitWildcard(MovesDown(st, arrayPath, loc, NodeAt(st.data, loc).len, index),
               arrayPath, "remove", old, ValOf(index), Undef)

\* A variant that leaves the key of a plain object in place.
UnsetCheckedKeepsKey(st, parts, node, old) ==
  IF IsArray(node)
  THEN IF node.len = 0 THEN st
       ELSE UnsetSpliced([st EXCEPT !.data = PutAtLoc(@, LocOf(Front(parts)),
                                                      SpliceOut(node, Last(parts)))],
                         S(PathStr(Front(parts))), LocOf(Front(parts)), Last(parts), old)
  ELSE st

\* unset, after this._checkUnset(path, old)
UnsetChecked(st, parts, node, old) ==
  IF IsArray(node)
  THEN IF node.len = 0 THEN st
       ELSE UnsetSpliced([st EXCEPT !.data = PutAtLoc(@, LocOf(Front(parts)),
                                                      SpliceOut(node, Last(parts)))],
                         S(PathStr(Front(parts))), LocOf(Front(parts)), Last(parts), old)
  ELSE [st EXCEPT !.data = PutAtLoc(@, LocOf(Front(parts)),
                                    DelKey(node, ToStr(Last(parts))))]

\* unset, from the read of the old value on
UnsetAtNode(st, path, parts, node, old) ==
  IF old = Undef THEN st
  ELSE UnsetChecked(CheckUnset(st, path, old, Undef), parts, node, old)

\* unset, after the walk to the parent node.
UnsetWalked(w, path) ==
  IF w.r = "throw" \/ (w.r = "ok" /\ w.node.t = "null") THEN Threw(w.st)
  ELSE IF w.r = "undef" THEN w.st
  ELSE UnsetAtNode(w.st, path, w.parts, w.node,
                   IF Len(w.parts) = 0 THEN Undef ELSE GetProp(w.node, Last(w.parts)))

\* unset(path = ''): a call without a path runs with the empty path, so
\* the branch for an undefined path is never taken.
Unset(st, path) == UnsetWalked(WalkTo(MakePathParts(st, path), st.data, 1), path)

\* patch, from the point where the parent node is known to be an object;
\* current is the value at the path.
PatchAtNode(st, path, parts, d, current) ==
  IF IsObject(current)
  THEN IF IsObject(d)
       THEN PatchNode(st, path, LocOf(parts), d)
       ELSE EmitWildcard(CheckUnset(Write(st, LocOf(Front(parts)), ToStr(Last(parts)), d),
                                    path, current, d),
                         path, "set", d, current, Undef)
  ELSE IF IsObject(d)
  THEN CheckSet(Write(st, LocOf(Front(parts)), ToStr(Last(parts)), d), path, d, current)
  ELSE IF StrictNe(current, d)
  THEN EmitWildcard(Write(st, LocOf(Front(parts)), ToStr(Last(parts)), d),
                    path, "set", d, current, Undef)
  ELSE st

\* patch, after the walk to the parent node.
PatchWalked(w, root, path, d) ==
  IF w.r = "throw" THEN Threw(w.st)
  ELSE IF w.r = "undef" \/ ~IsObject(w.node) THEN w.st
  ELSE PatchAtNode(w.st, path, w.parts, d,
                   IF path = S(<<>>) THEN root ELSE GetProp(w.node, Last(w.parts)))

\* A variant of patch that announces a scalar handed to it for the root.
PatchRootAnyway(st, path, d) ==
  IF path = S(<<>>) /\ ~IsObject(d) THEN EmitWildcard(st, path, "set", d, st.data, Undef)
  ELSE PatchWalked(WalkTo(MakePathParts(st, path), st.data, 1), st.data, path, d)

\* patch(path, data)
Patch(st, path, d) ==
  IF path = S(<<>>) /\ ~IsObject(d) THEN st
  ELSE PatchWalked(WalkTo(MakePathParts(st, path), st.data, 1), st.data, path, d)

\* if (Number.isInteger(path)) path = path.toString();
ToPath(path) == IF path.num THEN S(ToStr(path)) ELSE path

\* The array that insert, move and remove work on: the walk over every
\* segment of the path, none for the empty path.
Target(st, p) ==
  WalkTo(IF p = S(<<>>) THEN [st |-> st, parts |-> <<>>] ELSE MakePathParts(st, p),
         st.data, 0)

RECURSIVE EmitMovesUp(_, _, _, _, _)
RECURSIVE EmitMovesUpAscending(_, _, _, _, _)
\* A variant that announces the shifted items lowest index first.
EmitMovesUpAscending(st, path, loc, i, movedSince) ==
  IF st.threw \/ i <= movedSince THEN st
  ELSE EmitWildcard(
         EmitMovesUpAscending(st, path, loc, i - 1, movedSince),
         path, "move",
         GetKey(NodeAt(st.data, loc), IntToStr(i - 1)), Num(i - 2), Num(i - 1))

\* let i = node.length; while (i-- > movedSince) emit move(node[i], i - 1, i)
EmitMovesUp(st, path, loc, i, movedSince) ==
  IF st.threw \/ i <= movedSince THEN st
  ELSE EmitMovesUp(
         EmitWildcard(st, path, "move",
                      GetKey(NodeAt(st.data, loc), IntToStr(i - 1)), Num(i - 2), Num(i - 1)),
         path, loc, i - 1, movedSince)

\* A variant without the + 1 of insert's negative-index rule.
InsertIndexNoOffset(len, index) ==
  IF index < 0 - 1
  THEN (IF index < 0 - len THEN 0 ELSE len + index)
  ELSE index

\* The index insert works with after its negative-index rule.
InsertIndex(len, index) ==
  IF index < 0 - 1
  THEN (IF index < 0 - len THEN 0 ELSE len + index + 1)
  ELSE index

\* Whether insert takes its `end` branch.
AtEnd(len, index) == index # 0 /\ (index = 0 - 1 \/ index >= len)

\* node.unshift(data), node.push(data) or node.splice(index, 0, data)
InsertInto(node, d, index) ==
  IF index = 0 THEN Unshift(node, d)
  ELSE IF AtEnd(node.len, index) THEN Push(node, d)
  ELSE SpliceIn(node, index, d)

\* insert, after the array took the item: final is the index it is at.
InsertEmit(st, p, loc, d, final, atEnd) ==
  CheckSet(EmitWildcard(IF atEnd THEN st
                        ELSE EmitMovesUp(st, p, loc, NodeAt(st.data, loc).len, final + 1),
                        p, "insert", d, Num(final), Undef),
           S((IF p # S(<<>>) THEN ToStr(p) \o <<".">> ELSE <<>>) \o IntToStr(final)),
           d, Undef)

\* insert, from the negative-index rule on
InsertAtIndex(st, p, loc, node, d, index) ==
  InsertEmit([st EXCEPT !.data = PutAtLoc(@, loc, InsertInto(node, d, index))],
             p, loc, d,
             IF AtEnd(node.len, index) THEN InsertInto(node, d, index).len - 1 ELSE index,
             AtEnd(node.len, index))

\* A variant that announces an insert into whatever the path resolves to.
InsertWalkedAnyway(tg, p, d, index) ==
  IF tg.r = "throw" THEN Threw(tg.st)
  ELSE IF tg.r = "undef" THEN tg.st
  ELSE IF ~IsArray(tg.node) THEN EmitWildcard(tg.st, p, "insert", d, Num(0), Undef)
  ELSE InsertAtIndex(tg.st, p, LocOf(tg.parts), tg.node, d,
                     InsertIndex(tg.node.len, index))

\* insert, after the walk to the array
InsertWalked(tg, p, d, index) ==
  IF tg.r = "throw" THEN Threw(tg.st)
  ELSE IF tg.r = "undef" \/ ~IsArray(tg.node) THEN tg.st
  ELSE InsertAtIndex(tg.st, p, LocOf(tg.parts), tg.node, d,
                     InsertIndex(tg.node.len, index))

\* insert(path, data, index)
Insert(st, path, d, index) ==
  InsertWalked(Target(st, ToPath(path)), ToPath(path), d, index)

\* A variant that clamps an index past the end to the length.
ClampIndexPastEnd(len, index) ==
  IF index < 0
  THEN (IF index < 0 - len THEN 0 ELSE len + index)
  ELSE IF index >= len THEN len ELSE index

\* The index move and remove work with: a negative index counts from the
\* end, an index outside the array is clamped into it.
ClampIndex(len, index) ==
  IF index < 0
  THEN (IF index < 0 - len THEN 0 ELSE len + index)
  ELSE IF index >= len THEN len - 1 ELSE index

RECURSIVE EmitShifted(_, _, _, _, _, _)
RECURSIVE EmitShiftedBackwards(_, _, _, _, _, _)
\* A variant that reports the shifted items as moving the other way.
EmitShiftedBackwards(st, path, loc, i, movedSince, movedDirection) ==
  IF st.threw \/ i <= movedSince THEN st
  ELSE EmitShiftedBackwards(
         EmitWildcard(st, path, "move",
                      GetKey(NodeAt(st.data, loc), IntToStr(i - 1 + movedDirection)),
                      Num(i - 1 + movedDirection), Num(i - 1)),
         path, loc, i - 1, movedSince, movedDirection)

\* let i = movedTill; while (i-- > movedSince)
\*     emit move(node[i + movedDirection], i, i + movedDirection)
EmitShifted(st, path, loc, i, movedSince, movedDirection) ==
  IF st.threw \/ i <= movedSince THEN st
  ELSE EmitShifted(
         EmitWildcard(st, path, "move",
                      GetKey(NodeAt(st.data, loc), IntToStr(i - 1 + movedDirection)),
                      Num(i - 1), Num(i - 1 + movedDirection)),
         path, loc, i - 1, movedSince, movedDirection)

\* move, after the two splices
MoveEmit(st, p, loc, d, from, to) ==
  EmitWildcard(IF to > from
               THEN EmitShifted(st, p, loc, to + 1, from + 1, 0 - 1)
               ELSE EmitShifted(st, p, loc, from, to, 1),
               p, "move", d, Num(from), Num(to))

\* A variant that puts an item moved to the right one place too far.
MoveItemTooFar(st, p, loc, node, from, to) ==
  IF from = to THEN st
  ELSE MoveEmit([st EXCEPT !.data =
                   PutAtLoc(@, loc, SpliceIn(SpliceOut(node, N(from)),
                                             IF to > from THEN to + 1 ELSE to,
                                             GetKey(node, IntToStr(from))))],
                p, loc, GetKey(node, IntToStr(from)), from, to)

\* move, from the clamped indices on
MoveItem(st, p, loc, node, from, to) ==
  IF from = to THEN st
  ELSE MoveEmit([st EXCEPT !.data =
                   PutAtLoc(@, loc, SpliceIn(SpliceOut(node, N(from)), to,
                                             GetKey(node, IntToStr(from))))],
                p, loc, GetKey(node, IntToStr(from)), from, to)

\* A variant that takes a target index past the end for the start.
MoveWalkedWrapping(tg, p, from, to) ==
  IF tg.r = "throw" THEN Threw(tg.st)
  ELSE IF tg.r = "undef" \/ ~IsArray(tg.node) THEN tg.st
  ELSE MoveItem(tg.st, p, LocOf(tg.parts), tg.node,
                ClampIndex(tg.node.len, from),
                IF to >= tg.node.len THEN 0 ELSE ClampIndex(tg.node.len, to))

\* move, after the walk to the array
MoveWalked(tg, p, from, to) ==
  IF tg.r = "throw" THEN Threw(tg.st)
  ELSE IF tg.r = "undef" \/ ~IsArray(tg.node) THEN tg.st
  ELSE MoveItem(tg.st, p, LocOf(tg.parts), tg.node,
                ClampIndex(tg.node.len, from), ClampIndex(tg.node.len, to))

\* move(path, from, to)
Move(st, path, from, to) ==
  MoveWalked(Target(st, ToPath(path)), ToPath(path), from, to)

\* remove, after node.splice(index, 1)
RemoveEmit(st, p, loc, d, index) ==
  EmitWildcard(MovesDown(st, p, loc, NodeAt(st.data, loc).len, N(index)),
               p, "remove", d, Num(index), Undef)

\* remove, after this._checkUnset(...)
RemoveChecked(st, p, loc, node, index) ==
  RemoveEmit([st EXCEPT !.data = PutAtLoc(@, loc, SpliceOut(node, N(index)))],
             p, loc, GetKey(node, IntToStr(index)), index)

\* remove, from the clamped index on
RemoveItem(st, p, loc, node, index) ==
  RemoveChecked(CheckUnset(st,
                           S((IF Truthy(p) THEN ToStr(p) \o <<".">> ELSE <<>>)
                             \o IntToStr(index)),
                           GetKey(node, IntToStr(index)), Undef),
                p, loc, node, index)

\* remove, after the walk to the array
RemoveWalked(tg, p, index) ==
  IF tg.r = "throw" THEN Threw(tg.st)
  ELSE IF tg.r = "undef" \/ ~IsArray(tg.node) \/ tg.node.len = 0 THEN tg.st
  ELSE RemoveItem(tg.st, p, LocOf(tg.parts), tg.node, ClampIndex(tg.node.len, index))

\* remove(path, index)
Remove(st, path, index) ==
  RemoveWalked(Target(st, ToPath(path)), ToPath(path), index)

(***************************************************************************)
(* Re-entrant calls.  A handler of an unset event runs inside emit, before *)
(* _checkUnset returns; the teardown reads the removed value only, so the  *)
(* array the outer call goes on with is the one the handler left.  The     *)
(* handler is taken to run once.                                           *)
(***************************************************************************)
\* The call that a handler makes on the array at path p.
Reenter(st, p, h) ==
  IF st.threw THEN st
  ELSE IF h.op = "insert" THEN Insert(st, p, h.value, h.index)
  ELSE IF h.op = "move" THEN Move(st, p, h.from, h.to)
  ELSE IF h.op = "remove" THEN Remove(st, p, h.index)
  ELSE st

\* What a call did: the state it leaves, whether it spliced, the value
\* whose teardown it announced, the item the splice took out of the array
\* and the value of its remove event.
Did(st, ran, announced, spliced, carried) ==
  [st |-> st, ran |-> ran, announced |-> announced, spliced |-> spliced,
   carried |-> carried]

\* remove from the clamped index on, with a handler of the unset event:
\* d is the value read before the teardown, and node.splice(index, 1)
\* works on the array as the handler left it.
RemoveItemReentered(st, p, loc, node, index, h) ==
  LET d == GetKey(node, IntToStr(index))
      told == Reenter(CheckUnset(st,
                                 S((IF Truthy(p) THEN ToStr(p) \o <<".">> ELSE <<>>)
                                   \o IntToStr(index)),
                                 d, Undef),
                      p, h)
      node2 == NodeAt(told.data, loc)
  IN  Did(RemoveEmit([told EXCEPT !.data = PutAtLoc(@, loc, SpliceOut(node2, N(index)))],
                     p, loc, d, index),
          ~told.threw, d, GetKey(node2, IntToStr(index)), d)

\* remove(path, index) with a handler of the unset event.
RemoveReentered(st, path, index, h) ==
  LET tg == Target(st, ToPath(path))
  IN  IF tg.r = "throw" THEN Did(Threw(tg.st), FALSE, Undef, Undef, Undef)
      ELSE IF tg.r = "undef" \/ ~IsArray(tg.node) \/ tg.node.len = 0
      THEN Did(tg.st, FALSE, Undef, Undef, Undef)
      ELSE RemoveItemReentered(tg.st, ToPath(path), LocOf(tg.parts), tg.node,
                               ClampIndex(tg.node.len, index), h)

\* unset from Array.isArray(node) on; node is the parent as the handler
\* left it, old the value read before the teardown.
UnsetSplicing(st, parts, node, old) ==
  IF IsArray(node)
  THEN IF node.len = 0 THEN Did(st, FALSE, old, Undef, Undef)
       ELSE Did(UnsetSpliced([st EXCEPT !.data = PutAtLoc(@, LocOf(Front(parts)),
                                                         SpliceOut(node, Last(parts)))],
                             S(PathStr(Front(parts))), LocOf(Front(parts)),
                             Last(parts), GetProp(node, Last(parts))),
                ~st.threw, old, GetProp(node, Last(parts)), GetProp(node, Last(parts)))
  ELSE Did([st EXCEPT !.data = PutAtLoc(@, LocOf(Front(parts)),
                                        DelKey(node, ToStr(Last(parts))))],
           FALSE, old, Undef, Undef)

\* unset from the read of the old value on, with a handler of the unset
\* event.
UnsetAtNodeReentered(st, path, parts, old, h) ==
  IF old = Undef THEN Did(st, FALSE, Undef, Undef, Undef)
  ELSE LET told == Reenter(CheckUnset(st, path, old, Undef),
                           S(PathStr(Front(parts))), h)
       IN  UnsetSplicing(told, parts, NodeAt(told.data, LocOf(Front(parts))), old)

\* unset(path) with a handler of the unset event.
UnsetReentered(st, path, h) ==
  LET w == WalkTo(MakePathParts(st, path), st.data, 1)
  IN  IF w.r = "throw" \/ (w.r = "ok" /\ w.node.t = "null")
      THEN Did(Threw(w.st), FALSE, Undef, Undef, Undef)
      ELSE IF w.r = "undef" THEN Did(w.st, FALSE, Undef, Undef, Undef)
      ELSE UnsetAtNodeReentered(w.st, path, w.parts,
                                IF Len(w.parts) = 0 THEN Undef
                                ELSE GetProp(w.node, Last(w.parts)),
                                h)

RECURSIVE GetDown(_, _, _)
\* for (let part of parts) { node = node[part]; if (node == null) return node; }
GetDown(node, parts, i) ==
  IF i > Len(parts) THEN node
  ELSE IF GetProp(node, parts[i]).t \in {"null", "undef"} THEN GetProp(node, parts[i])
  ELSE GetDown(GetProp(node, parts[i]), parts, i + 1)

\* The outcome of get once the path is resolved.
GetResolved(mp, root) == [st |-> mp.st, ret |-> GetDown(root, mp.parts, 1)]

\* get(path): the value returned, and the state (the path cache grows).
Get(st, path) == GetResolved(MakePathParts(st, path), st.data)

(***************************************************************************)
(* Subscriptions.  The events cache is a trie over the segments of the     *)
(* subscribed paths, last segment first; a node is named by the keys that  *)
(* lead to it and holds its counter and its end counter.                   *)
(***************************************************************************)
KindChars(kind) ==
  CASE kind = "set" -> <<"s", "e", "t">>
    [] kind = "unset" -> <<"u", "n", "s", "e", "t">>
    [] kind = "insert" -> <<"i", "n", "s", "e", "r", "t">>
    [] kind = "move" -> <<"m", "o", "v", "e">>
    [] kind = "remove" -> <<"r", "e", "m", "o", "v", "e">>

\* name.replace(/:(set|unset|insert|move|remove)$/, '')
NamePath(name) == IF name.q THEN S(name.pat) ELSE S(KindChars(name.kind))

NoTrie == [k \in {} |-> [counter |-> 0, end |-> 0]]

\* The keys of the node reached after the segments parts[i..Len], last first.
TrieKey(parts, i) == [j \in 1..(Len(parts) - i + 1) |-> parts[Len(parts) - j + 1]]

\* The walk of on(): every node on the way is created if missing and
\* counted; the node of the first segment ends one more subscription.
TrieAdd(trie, parts) ==
  LET on == {TrieKey(parts, i) : i \in 1..Len(parts)}
  IN  [k \in (DOMAIN trie) \cup on |->
         LET was == IF k \in DOMAIN trie THEN trie[k] ELSE [counter |-> 0, end |-> 0]
         IN  [counter |-> was.counter + (IF k \in on THEN 1 ELSE 0),
              end |-> was.end + (IF k = TrieKey(parts, 1) THEN 1 ELSE 0)]]

IsPrefix(p, q) == Len(p) <= Len(q) /\ SubSeq(q, 1, Len(p)) = p

\* A variant of the walk of evt.destroy() that deletes the node of the last
\* segment, with all below it, whatever its counter.
TrieRemoveEager(trie, parts) ==
  [k \in {x \in DOMAIN trie : ~IsPrefix(TrieKey(parts, Len(parts)), x)} |-> trie[k]]

\* The walk of evt.destroy(): every node on the way is uncounted, until
\* one reaches zero, which is deleted with all below it.
TrieRemove(trie, parts) ==
  LET on == {TrieKey(parts, i) : i \in 1..Len(parts)}
      dead == {k \in on : trie[k].counter = 1}
      cut == IF dead = {} THEN {}
             ELSE {CHOOSE k \in dead : \A d \in dead : Len(k) <= Len(d)}
      gone == {k \in DOMAIN trie : \E c \in cut : IsPrefix(c, k)}
  IN  [k \in (DOMAIN trie) \ gone |->
         [counter |-> trie[k].counter - (IF k \in on THEN 1 ELSE 0),
          end |-> trie[k].end - (IF k = TrieKey(parts, 1) THEN 1 ELSE 0)]]

\* The live subscriptions an emitted event is delivered to.
Heard(e) == {h \in subs : h.name = e.name}

(***************************************************************************)
(* Inputs.                                                                 *)
(***************************************************************************)
O1(k, v) == Obj(<<k>>, <<v>>)

O2(k1, v1, k2, v2) == Obj(<<k1, k2>>, <<v1, v2>>)

\* new Observer(data)
InitData ==
  { Obj(<<>>, <<>>),
    O2(<<"a">>, Num(1), <<"b">>, Num(2)),
    O1(<<"a">>, O2(<<"a">>, Num(1), <<"b">>, Num(2))),
    O2(<<"a">>, O1(<<"b">>, Num(1)), <<"b">>, O1(<<"b">>, Num(0))),
    O2(<<"a">>, Arr(<<Num(1), Num(2), Num(3)>>), <<"b">>, Null),
    Arr(<<>>),
    Arr(<<Num(1), Num(2), Num(3)>>),
    Arr(<<O2(<<"a">>, Num(1), <<"b">>, Num(2)), Num(2)>>),
    Arr(<<Arr(<<Num(1), O1(<<"a">>, Num(1))>>)>>) }

\* An array literal with a hole at index 1: [v, , w]
Sparse(v, w) ==
  Rebuild(Arr(<<>>), <<v, Undef, w>>, <<FALSE, TRUE, FALSE>>)

MoreData ==
  { O1(<<"a">>, Num(1)),
    O2(<<"a">>, Arr(<<O1(<<"b">>, Num(1)), Num(2)>>), <<"b">>, Num(2)),
    O2(<<"a">>, O1(<<"b">>, O1(<<"a">>, Num(1))), <<"0">>, Num(1)),
    O2(<<"a">>, O1(<<"b">>, Null), <<"b">>, O1(<<"a">>, Null)),
    O2(<<"a">>, Null, <<"b">>, Num(1)),
    O1(<<"a">>, Sparse(Num(1), Num(3))),
    Arr(<<Num(1)>>),
    Arr(<<Null, O1(<<"a">>, Arr(<<Num(1)>>)), Num(3), Num(4)>>),
    Arr(<<Arr(<<>>), Num(2)>>),
    Sparse(O1(<<"a">>, Num(1)), Num(3)),
    O1(<<"0">>, O1(<<"a">>, Num(1))),
    Arr(<<O2(<<"a">>, O1(<<"b">>, Num(1)), <<"b">>, Num(2))>>) }

\* The path arguments of get, set, patch and unset.
Paths ==
  { S(<<>>), S(<<"a">>), S(<<"b">>), S(<<"a", ".", "b">>), S(<<"a", ".", "0">>),
    S(<<"b", ".", "a">>), S(<<"a", ".", "b", ".", "a">>),
    S(<<"0">>), S(<<"0", ".", "a">>), N(0), N(1) }

\* The path arguments of insert, move and remove.
ArrayPaths == {S(<<>>), S(<<"a">>), N(0)}

Scalars == {Num(7), Null}

Values ==
  Scalars \cup
  { O2(<<"a">>, Num(1), <<"c">>, Num(3)),
    O1(<<"b">>, O1(<<"a">>, Num(7))),
    Arr(<<Num(1), Num(7)>>) }

Inserted == {Num(7), O1(<<"b">>, O1(<<"a">>, Num(7)))}

Indices == (0 - MaxIndex - 1)..MaxIndex

Patterns ==
  { <<"a">>, <<"a", ".", "b">>, <<"*", ".", "b">>, <<"a", ".", "*">>,
    <<"*", ".", "*">>, <<"*">>, <<"a", ".", "0">>, <<"*", ".", "0">>,
    <<"0">>, <<"0", ".", "a">> }

Names ==
  {Qualified(p, "set") : p \in Patterns}
  \cup {Qualified(<<"a">>, k) : k \in Kinds}
  \cup {Qualified(<<"*">>, "unset"), CatchAll("set")}

\* The set events of the four patterns that match a change at a.b.
DeepNames ==
  {Qualified(p, "set") :
     p \in {<<"a", ".", "b">>, <<"*", ".", "b">>, <<"a", ".", "*">>, <<"*", ".", "*">>}}

(***************************************************************************)
(* The state machine: one action per call.  last records the call, the     *)
(* data and the subscriptions it found; log holds the events it emitted.   *)
(***************************************************************************)
Call(op, path, value, index, from, to) ==
  [op |-> op, path |-> path, value |-> value, index |-> index, from |-> from,
   to |-> to, pre |-> data, had |-> subs, heard |-> eventsCache, threw |-> FALSE,
   ret |-> Undef, name |-> CatchAll("set")]

\* The state after new Observer(d), with the number of calls to follow.
Boot(ds, calls) ==
  /\ data \in ds
  /\ pathCache = NoCache
  /\ eventsCache = NoTrie
  /\ subs = {}
  /\ nextId = 1
  /\ log = <<>>
  /\ last = [Call("new", S(<<>>), Undef, 0, 0, 0) EXCEPT !.pre = Undef]
  /\ steps = 0
  /\ limit = calls

Init == Boot(InitData, MaxSteps)

\* The state a mutation call leaves.
Returns(st, call) ==
  /\ data' = st.data
  /\ pathCache' = st.cache
  /\ log' = st.log
  /\ last' = [call EXCEPT !.threw = st.threw]
  /\ steps' = steps + 1
  /\ UNCHANGED <<eventsCache, subs, nextId, limit>>

DoSet ==
  \E path \in Paths, value \in Values :
    /\ steps < limit
    /\ Returns(Set(Start(data, pathCache), path, value),
               Call("set", path, value, 0, 0, 0))

\* A patch call with one of the given values.
PatchOf(values) ==
  \E path \in Paths, value \in values :
    /\ steps < limit
    /\ Returns(Patch(Start(data, pathCache), path, value),
               Call("patch", path, value, 0, 0, 0))

DoPatch == PatchOf(Values)

\* The patch calls alone, the number NaN among their values.
DoPatchAny == PatchOf(Values \cup {NaN})

DoUnset ==
  \E path \in Paths :
    /\ steps < limit
    /\ Returns(Unset(Start(data, pathCache), path),
               Call("unset", path, Undef, 0, 0, 0))

DoInsert ==
  \E path \in ArrayPaths, value \in Inserted, index \in Indices :
    /\ steps < limit
    /\ Returns(Insert(Start(data, pathCache), path, value, index),
               Call("insert", path, value, index, 0, 0))

DoMove ==
  \E path \in ArrayPaths, from \in Indices, to \in Indices :
    /\ steps < limit
    /\ Returns(Move(Start(data, pathCache), path, from, to),
               Call("move", path, Undef, 0, from, to))

DoRemove ==
  \E path \in ArrayPaths, index \in Indices :
    /\ steps < limit
    /\ Returns(Remove(Start(data, pathCache), path, index),
               Call("remove", path, Undef, index, 0, 0))

DoGet ==
  \E path \in Paths :
    /\ steps < limit
    /\ LET r == Get(Start(data, pathCache), path)
       IN  /\ pathCache' = r.st.cache
           /\ log' = <<>>
           /\ last' = [Call("get", path, Undef, 0, 0, 0) EXCEPT !.ret = r.ret]
    /\ steps' = steps + 1
    /\ UNCHANGED <<data, eventsCache, subs, nextId, limit>>

\* on(name, callback), for a name among names while fewer than max
\* subscriptions are live
Subscribe(names, max) ==
  \E name \in names :
    /\ steps < limit
    /\ Cardinality(subs) < max
    /\ LET mp == MakePathParts(Start(data, pathCache), NamePath(name))
       IN  /\ pathCache' = mp.st.cache
           /\ eventsCache' = TrieAdd(eventsCache, mp.parts)
           /\ subs' = subs \cup {[id |-> nextId, name |-> name, parts |-> mp.parts]}
    /\ nextId' = nextId + 1
    /\ log' = <<>>
    /\ last' = [Call("on", S(<<>>), Undef, 0, 0, 0) EXCEPT !.name = name]
    /\ steps' = steps + 1
    /\ UNCHANGED <<data, limit>>

DoOn == Subscribe(Names, MaxSubs)

\* on(name, callback) for the patterns of two segments over one path
DoOnDeep == Subscribe(DeepNames, MaxDeepSubs)

\* evt.off() on the handle on() returned: the overridden destroy walks the
\* events cache, then the emitter drops the listener.
DoOff ==
  \E h \in subs :
    /\ steps < limit
    /\ eventsCache' = TrieRemove(eventsCache, h.parts)
    /\ subs' = subs \ {h}
    /\ log' = <<>>
    /\ last' = [Call("off", S(<<>>), Undef, 0, 0, 0) EXCEPT !.name = h.name]
    /\ steps' = steps + 1
    /\ UNCHANGED <<data, pathCache, nextId, limit>>

\* A variant of clear() that leaves the subscriptions in place.
DoClearKeepsSubs ==
  /\ steps < limit
  /\ data' = Obj(<<>>, <<>>)
  /\ pathCache' = NoCache
  /\ log' = <<>>
  /\ last' = Call("clear", S(<<>>), Undef, 0, 0, 0)
  /\ steps' = steps + 1
  /\ UNCHANGED <<eventsCache, subs, nextId, limit>>

\* clear(): this.off() removes every subscription; the events cache stays.
DoClear ==
  /\ steps < limit
  /\ data' = Obj(<<>>, <<>>)
  /\ pathCache' = NoCache
  /\ subs' = {}
  /\ log' = <<>>
  /\ last' = Call("clear", S(<<>>), Undef, 0, 0, 0)
  /\ steps' = steps + 1
  /\ UNCHANGED <<eventsCache, nextId, limit>>

Next ==
  \/ DoSet
  \/ DoPatch
  \/ DoUnset
  \/ DoInsert
  \/ DoMove
  \/ DoRemove
  \/ DoGet
  \/ DoOn
  \/ DoOff
  \/ DoClear

Spec == Init /\ [][Next]_vars

\* The data-tree calls alone, from a wider choice of initial data.
InitTree == Boot(InitData \cup MoreData, MaxTreeSteps)

NextTree ==
  \/ DoSet
  \/ DoPatch
  \/ DoUnset
  \/ DoGet

SpecTree == InitTree /\ [][NextTree]_vars

\* The patch calls alone, NaN among the values.
SpecPatch == InitTree /\ [][DoPatchAny]_vars

\* The calls a handler makes: none, or an insert, a move or a remove.
Handlers ==
  {[op |-> "none", value |-> Undef, index |-> 0, from |-> 0, to |-> 0]}
  \cup {[op |-> "insert", value |-> Num(7), index |-> i, from |-> 0, to |-> 0] :
          i \in Indices}
  \cup {[op |-> "move", value |-> Undef, index |-> 0, from |-> f, to |-> t] :
          f \in Indices, t \in Indices}
  \cup {[op |-> "remove", value |-> Undef, index |-> i, from |-> 0, to |-> 0] :
          i \in Indices}

\* The state a call with a handler leaves.
ReturnsDid(r, call, h) ==
  /\ data' = r.st.data
  /\ pathCache' = r.st.cache
  /\ log' = r.st.log
  /\ last' = [op |-> call.op, path |-> call.path, value |-> call.value,
              index |-> call.index, from |-> call.from, to |-> call.to,
              pre |-> call.pre, had |-> call.had, heard |-> call.heard,
              threw |-> r.st.threw, ret |-> call.ret, name |-> call.name,
              handler |-> h, ran |-> r.ran, announced |-> r.announced,
              spliced |-> r.spliced, carried |-> r.carried]
  /\ steps' = steps + 1
  /\ UNCHANGED <<eventsCache, subs, nextId, limit>>

DoRemoveReentered ==
  \E path \in ArrayPaths, index \in Indices, h \in Handlers :
    /\ steps < limit
    /\ ReturnsDid(RemoveReentered(Start(data, pathCache), path, index, h),
                  Call("remove", path, Undef, index, 0, 0), h)

DoUnsetReentered ==
  \E path \in Paths, h \in Handlers :
    /\ steps < limit
    /\ ReturnsDid(UnsetReentered(Start(data, pathCache), path, h),
                  Call("unset", path, Undef, 0, 0, 0), h)

\* remove and unset with a handler that calls back into the container.
SpecReentered ==
  Boot(InitData \cup MoreData, MaxReenteredSteps)
  /\ [][DoRemoveReentered \/ DoUnsetReentered]_vars

\* The array calls alone, from a wider choice of initial data.
InitArray == Boot(InitData \cup MoreData, MaxArraySteps)

NextArray ==
  \/ DoInsert
  \/ DoMove
  \/ DoRemove

SpecArray == InitArray /\ [][NextArray]_vars

\* Subscribing and unsubscribing alone.
InitSubs == Boot(InitData, MaxSubSteps)

NextSubs ==
  \/ DoOn
  \/ DoOff

SpecSubs == InitSubs /\ [][NextSubs]_vars

\* Subscribing to the patterns over one path alone.
InitDeep == Boot(InitData, MaxDeepSubs)

SpecDeep == InitDeep /\ [][DoOnDeep]_vars

(***************************************************************************)
(* Properties.  They speak of the state a call leaves: last is the call,   *)
(* last.pre the data before it, log the events it emitted.                 *)
(***************************************************************************)
\* The segments a path argument names, as strings.
Segments(path) == IF ToStr(path) = <<>> THEN <<>> ELSE Split(ToStr(path))

RECURSIVE ValueAt(_, _)
\* The value held at the end of the segments; undefined where the chain
\* breaks.
ValueAt(root, segs) ==
  IF Len(segs) = 0 THEN root
  ELSE IF ~IsObject(root) THEN Undef
  ELSE ValueAt(GetKey(root, segs[1]), Tail(segs))

\* The value that holds the last segment of the path.
ParentAt(root, path) == ValueAt(root, Front(Segments(path)))

\* The changes dispatched by the call, in order: the catch-all events.
Changes ==
  LET all == SelectSeq(log, LAMBDA e : ~e.name.q)
  IN  [i \in 1..Len(all) |->
         [kind |-> all[i].name.kind, loc |-> LocOf(all[i].parts),
          a1 |-> all[i].a1, a2 |-> all[i].a2, a3 |-> all[i].a3]]

\* The positions in the changes of those of one kind.
Of(kind) == {i \in 1..Len(Changes) : Changes[i].kind = kind}

\* C1: after set(p, v) of a scalar v (undefined apart) at a path whose
\* parent is an object or an array, get(p) returns v.
SetGetRoundTrip ==
  (/\ last.op = "set"
   /\ ~IsObject(last.value)
   /\ last.path # S(<<>>)
   /\ IsObject(ParentAt(last.pre, last.path)))
  => Get(Start(data, pathCache), last.path).ret = last.value

\* A set that replaced a different value under an array by a number.
SetGetRoundTripWitness ==
  /\ last.op = "set"
  /\ last.value = Num(7)
  /\ IsArray(ParentAt(last.pre, last.path))
  /\ ValueAt(last.pre, Segments(last.path)) # last.value
  /\ ValueAt(data, Segments(last.path)) = last.value

\* C2: set(p, v) and patch(p, v) at a path whose parent is missing or is a
\* scalar leave the whole data tree as it was and emit no event.
NoOpWithoutParent ==
  (/\ last.op \in {"set", "patch"}
   /\ last.path # S(<<>>)
   /\ ~IsObject(ParentAt(last.pre, last.path)))
  => (data = last.pre /\ log = <<>>)

\* A set of an object two segments below a key the data does not have.
NoOpWithoutParentWitness ==
  /\ last.op = "set"
  /\ IsObject(last.value)
  /\ Len(Segments(last.path)) = 3
  /\ ValueAt(last.pre, <<Segments(last.path)[1]>>) = Undef
  /\ data = last.pre
  /\ log = <<>>

RECURSIVE KeyPaths(_)
\* The key sequences that lead from a value to the values nested in it.
KeyPaths(v) ==
  IF ~IsObject(v) THEN {}
  ELSE UNION {{<<v.keys[i]>>} \cup {<<v.keys[i]>> \o q : q \in KeyPaths(v.vals[i])}
              : i \in 1..Len(v.keys)}

\* The nested keys of old that new does not have.
Dropped(old, new) == {q \in KeyPaths(old) : ValueAt(new, q) = Undef}

\* The nested keys of new that old does not have, or whose value differs
\* and is not an object on both sides.
Written(old, new) ==
  {q \in KeyPaths(new) :
     \/ ValueAt(old, q) = Undef
     \/ /\ ValueAt(new, q) # ValueAt(old, q)
        /\ ~(IsObject(ValueAt(new, q)) /\ IsObject(ValueAt(old, q)))}

\* p is a proper prefix of q
Above(p, q) == Len(p) < Len(q) /\ SubSeq(q, 1, Len(p)) = p

\* The events of a diff at the segments base: one unset for each of the
\* key sequences in dropped, descendants first, then one set for each of
\* those in written, and nothing else.
DiffAt(base, dropped, written) ==
  /\ Of("unset") \cup Of("set") = 1..Len(Changes)
  /\ {Changes[i].loc : i \in Of("unset")} = {base \o q : q \in dropped}
  /\ Cardinality(Of("unset")) = Cardinality(dropped)
  /\ {Changes[i].loc : i \in Of("set")} = {base \o q : q \in written}
  /\ Cardinality(Of("set")) = Cardinality(written)
  /\ \A i \in Of("unset"), j \in Of("set") : i < j
  /\ \A i \in Of("unset"), j \in Of("unset") :
       Above(Changes[i].loc, Changes[j].loc) => j < i

\* C3: set(p, new) over an old plain object emits exactly one unset event
\* for every key of old that new lacks (descendants first), then one set
\* event for every key of new that old lacks or whose value differs, and
\* no other event; nested objects are diffed key by key in the same way.
DiffCompleteness ==
  (/\ last.op = "set"
   /\ last.value.t = "obj"
   /\ ValueAt(last.pre, Segments(last.path)).t = "obj")
  => DiffAt(Segments(last.path),
            Dropped(ValueAt(last.pre, Segments(last.path)), last.value),
            Written(ValueAt(last.pre, Segments(last.path)), last.value))

\* The same for a path given as a string.
DiffCompletenessOfStringPaths == last.path.num \/ DiffCompleteness

\* A set by a string path that dropped one key and wrote another.
DiffCompletenessWitness ==
  /\ last.op = "set"
  /\ ~last.path.num
  /\ last.path # S(<<>>)
  /\ last.value.t = "obj"
  /\ ValueAt(last.pre, Segments(last.path)).t = "obj"
  /\ Of("unset") # {}
  /\ Of("set") # {}

\* A pattern matches a concrete path when both have the same number of
\* segments and each segment of the pattern is '*' or the segment itself.
Matches(pat, segs) ==
  /\ Len(pat) = Len(segs)
  /\ \A i \in 1..Len(pat) : pat[i] = <<"*">> \/ pat[i] = segs[i]

\* The events of the change that log[i] belongs to that go to the
\* subscribers of the name.
Invocations(i, name) ==
  {j \in 1..Len(log) : log[j].chg = log[i].chg /\ log[j].name = name}

\* C4: a subscription to P:kind is invoked for a change of that kind at a
\* concrete path if and only if P matches the path, and then exactly once,
\* with the segments of the path, the value and the old value.
WildcardMatching ==
  \A h \in subs : \A i \in 1..Len(log) :
    (h.name.q /\ ~log[i].name.q /\ log[i].name.kind = h.name.kind)
    => IF Matches(Split(h.name.pat), LocOf(log[i].parts))
       THEN /\ Cardinality(Invocations(i, h.name)) = 1
            /\ \A j \in Invocations(i, h.name) :
                 /\ log[j].parts = log[i].parts
                 /\ log[j].a1 = log[i].a1
                 /\ log[j].a2 = log[i].a2
       ELSE Invocations(i, h.name) = {}

\* The same where no segment of the change is the array index 0.
WildcardMatchingOffIndexZero ==
  (\E i \in 1..Len(log) : \E k \in 1..Len(log[i].parts) :
     LocOf(log[i].parts)[k] = <<"0">>)
  \/ WildcardMatching

\* A wildcard subscription invoked for a change two segments deep.
WildcardMatchingWitness ==
  \E h \in subs : \E i \in 1..Len(log) :
    /\ h.name = Qualified(<<"*", ".", "b">>, "set")
    /\ ~log[i].name.q
    /\ log[i].name.kind = "set"
    /\ Len(log[i].parts) = 2
    /\ Invocations(i, h.name) # {}

\* C5: every change emits exactly one catch-all event, named by its kind
\* and carrying the segments of the path, and the qualified events of the
\* same change come before it; the change a scalar set makes at its own
\* path carries the segments of that path.
CatchAllLast ==
  /\ \A i \in 1..Len(log) :
       \E c \in 1..Len(log) :
         /\ log[c].chg = log[i].chg
         /\ ~log[c].name.q
         /\ log[c].name.kind \in Kinds
         /\ \A j \in 1..Len(log) :
              (log[j].chg = log[i].chg /\ j # c)
              => /\ log[j].name.q
                 /\ j < c
                 /\ log[j].name.kind = log[c].name.kind
                 /\ log[j].parts = log[c].parts
  /\ (last.op = "set" /\ ~IsObject(last.value) /\ log # <<>>)
     => \E i \in Of("set") :
          Changes[i].loc = Segments(last.path) /\ Changes[i].a1 = last.value

\* A change heard by a subscription before its catch-all event.
CatchAllLastWitness ==
  \E i, c \in 1..Len(log) :
    /\ i < c
    /\ log[i].chg = log[c].chg
    /\ log[i].name.q
    /\ ~log[c].name.q
    /\ Heard(log[i]) # {}

\* The array an insert, move or remove call names, before and after it.
Before == ValueAt(last.pre, Segments(last.path))

After == ValueAt(data, Segments(last.path))

Change(kind, loc, a1, a2, a3) ==
  [kind |-> kind, loc |-> loc, a1 |-> a1, a2 |-> a2, a3 |-> a3]

RECURSIVE Created(_, _)
RECURSIVE CreatedKeys(_, _, _)
\* The set notification of a value that appears at loc: one set event for
\* each value nested in it, children before parents, then its own.
Created(loc, v) ==
  (IF IsObject(v) THEN CreatedKeys(loc, v, 1) ELSE <<>>)
  \o <<Change("set", loc, v, Undef, Undef)>>

CreatedKeys(loc, v, i) ==
  IF i > Len(v.keys) THEN <<>>
  ELSE Created(Append(loc, v.keys[i]), v.vals[i]) \o CreatedKeys(loc, v, i + 1)

RECURSIVE Teardown(_, _)
RECURSIVE TeardownKeys(_, _, _)
\* The unset teardown of a value that leaves loc: one unset event for each
\* value nested in it, children before parents, then its own.
Teardown(loc, v) ==
  (IF IsObject(v) THEN TeardownKeys(loc, v, 1) ELSE <<>>)
  \o <<Change("unset", loc, v, Undef, Undef)>>

TeardownKeys(loc, v, i) ==
  IF i > Len(v.keys) THEN <<>>
  ELSE Teardown(Append(loc, v.keys[i]), v.vals[i]) \o TeardownKeys(loc, v, i + 1)

\* The move events of the elements a[lo..hi] (indices from 0), the highest
\* index first, each moving by step.
Shifts(loc, a, lo, hi, step) ==
  [j \in 1..(hi - lo + 1) |->
     Change("move", loc, Items(a)[hi - j + 2], Num(hi - j + 1), Num(hi - j + 1 + step))]

\* C6: insert(p, x, i) with 0 <= i < n puts x at index i and shifts the
\* elements i..n-1 up by one; it emits one move event per shifted element,
\* the highest index first, each with (element, k, k + 1), then one insert
\* event (x, i) at p, then the set notification of x at p.i.
InsertReindexing ==
  (/\ last.op = "insert"
   /\ IsArray(Before)
   /\ 0 <= last.index
   /\ last.index < Before.len)
  => /\ Items(After) = InsertAt(Items(Before), last.index + 1, last.value)
     /\ Changes = Shifts(Segments(last.path), Before, last.index, Before.len - 1, 1)
                  \o <<Change("insert", Segments(last.path), last.value,
                              Num(last.index), Undef)>>
                  \o Created(Append(Segments(last.path), IntToStr(last.index)),
                             last.value)

\* An insert of an object before the last two of three elements.
InsertReindexingWitness ==
  /\ last.op = "insert"
  /\ IsArray(Before)
  /\ Before.len = 3
  /\ last.index = 1
  /\ IsObject(last.value)
  /\ Cardinality(Of("move")) = 2
  /\ After.len = 4

\* max(0, n)
AtLeastZero(n) == IF n < 0 THEN 0 ELSE n

\* The index the claim gives the inserted item.
FinalIndex(n, index) ==
  IF index = 0 THEN 0
  ELSE IF index = 0 - 1 \/ index >= n THEN n
  ELSE IF index < 0 - 1 THEN AtLeastZero(n + index + 1)
  ELSE index

\* C7: insert(p, x, index) puts x at the final index: 0 for index 0, n for
\* index -1 or index >= n, max(0, n + index + 1) for index < -1, index
\* otherwise; an append emits no move event, and the insert event reports
\* the final index.
InsertNormalization ==
  (last.op = "insert" /\ IsArray(Before))
  => /\ Items(After)
          = InsertAt(Items(Before), FinalIndex(Before.len, last.index) + 1, last.value)
     /\ FinalIndex(Before.len, last.index) = Before.len => Of("move") = {}
     /\ Cardinality(Of("insert")) = 1
     /\ \A i \in Of("insert") :
          /\ Changes[i].a1 = last.value
          /\ Changes[i].a2 = Num(FinalIndex(Before.len, last.index))

\* An insert by a negative index that lands inside the array.
InsertNormalizationWitness ==
  /\ last.op = "insert"
  /\ IsArray(Before)
  /\ Before.len = 3
  /\ last.index = 0 - 3
  /\ Items(After)[2] = last.value
  /\ Of("move") # {}

\* C8: remove(p, i) on a non-empty array takes the element at i out and
\* keeps the order of the others; it emits the unset teardown of the
\* removed value at p.i, then one move event per following element, the
\* highest index first, each with (element, k + 1, k), then one remove
\* event at p with the removed value and i.
RemoveReindexing ==
  (/\ last.op = "remove"
   /\ IsArray(Before)
   /\ 0 <= last.index
   /\ last.index < Before.len)
  => /\ Items(After) = RemoveAt(Items(Before), last.index + 1)
     /\ Changes = Teardown(Append(Segments(last.path), IntToStr(last.index)),
                           Items(Before)[last.index + 1])
                  \o Shifts(Segments(last.path), Before, last.index + 1,
                            Before.len - 1, 0 - 1)
                  \o <<Change("remove", Segments(last.path),
                              Items(Before)[last.index + 1], Num(last.index), Undef)>>

\* A remove of an object that two elements follow.
RemoveReindexingWitness ==
  /\ last.op = "remove"
  /\ IsArray(Before)
  /\ last.index >= 0
  /\ Before.len > last.index + 2
  /\ IsObject(Items(Before)[last.index + 1])
  /\ Cardinality(Of("move")) = 2
  /\ Cardinality(Of("unset")) > 1

\* The index the claim has remove take the element from.
RemovedIndex(n, index) ==
  IF index < 0 THEN (IF index < 0 - n THEN 0 ELSE n + index)
  ELSE IF index >= n THEN n - 1
  ELSE index

\* C9: remove(p, index) on an array of length n > 0 removes the element at
\* n + index for -n <= index < 0, at 0 for index < -n, at n - 1 for
\* index >= n, at index otherwise; on an empty array it changes nothing
\* and emits no event.
RemoveNormalization ==
  (last.op = "remove" /\ IsArray(Before))
  => IF Before.len = 0
     THEN data = last.pre /\ log = <<>>
     ELSE /\ Items(After)
               = RemoveAt(Items(Before), RemovedIndex(Before.len, last.index) + 1)
          /\ Cardinality(Of("remove")) = 1
          /\ \A i \in Of("remove") :
               Changes[i].a2 = Num(RemovedIndex(Before.len, last.index))

\* A remove by an index past the end, which takes the last element.
RemoveNormalizationWitness ==
  /\ last.op = "remove"
  /\ IsArray(Before)
  /\ Before.len = 3
  /\ last.index = 3
  /\ Items(After) = SubSeq(Items(Before), 1, 2)

\* The move events of the elements between the two positions of a move.
Between(loc, a, from, to) ==
  IF to > from
  THEN {Change("move", loc, Items(a)[k + 1], Num(k), Num(k - 1)) : k \in (from + 1)..to}
  ELSE {Change("move", loc, Items(a)[k + 1], Num(k), Num(k + 1)) : k \in to..(from - 1)}

\* C10: move(p, from, to) with distinct indices of the array takes the
\* element at from out and puts it back at to; it emits one move event for
\* every element between the two positions, each for its own step of one,
\* then one move event (element, from, to) for the moved element.
MoveReindexing ==
  (/\ last.op = "move"
   /\ IsArray(Before)
   /\ last.from \in 0..(Before.len - 1)
   /\ last.to \in 0..(Before.len - 1)
   /\ last.from # last.to)
  => /\ Items(After) = InsertAt(RemoveAt(Items(Before), last.from + 1),
                                last.to + 1, Items(Before)[last.from + 1])
     /\ Len(Changes) = Cardinality(Between(Segments(last.path), Before,
                                           last.from, last.to)) + 1
     /\ {Changes[i] : i \in 1..(Len(Changes) - 1)}
          = Between(Segments(last.path), Before, last.from, last.to)
     /\ Changes[Len(Changes)]
          = Change("move", Segments(last.path), Items(Before)[last.from + 1],
                   Num(last.from), Num(last.to))

\* A move over two elements towards the start of the array.
MoveReindexingWitness ==
  /\ last.op = "move"
  /\ IsArray(Before)
  /\ last.from = 2
  /\ last.to = 0
  /\ Before.len > 2
  /\ Len(Changes) = 3

\* The state a second move leaves that takes the item back.
MovedBack == Move(Start(data, pathCache), last.path, last.to, last.from)

\* C11: on a non-empty array, move(p, a, b) followed by move(p, b, a) with
\* indices a and b of the array restores the original order of its items.
MoveSymmetry ==
  (/\ last.op = "move"
   /\ IsArray(Before)
   /\ last.from \in 0..(Before.len - 1)
   /\ last.to \in 0..(Before.len - 1))
  => /\ ~MovedBack.threw
     /\ Items(ValueAt(MovedBack.data, Segments(last.path))) = Items(Before)

\* A move that changed the order of three different items, and the move
\* back that restores it.
MoveSymmetryWitness ==
  /\ last.op = "move"
  /\ IsArray(Before)
  /\ Before.len > 2
  /\ last.from = 0
  /\ last.to = 2
  /\ Items(After) # Items(Before)
  /\ MovedBack.log # <<>>
  /\ Items(ValueAt(MovedBack.data, Segments(last.path))) = Items(Before)

\* The index the claim has move work with, for an array of length n.
Normalized(n, m) ==
  IF m < 0 THEN (IF m < 0 - n THEN 0 ELSE n + m)
  ELSE IF m >= n THEN n - 1
  ELSE m

\* What a move of the item at f to t does, f and t being different.
MovesFromTo(f, t) ==
  /\ Changes # <<>>
  /\ Changes[Len(Changes)]
       = Change("move", Segments(last.path), GetKey(Before, IntToStr(f)), Num(f), Num(t))
  /\ Before.len > 0
     => Items(After) = InsertAt(RemoveAt(Items(Before), f + 1), t + 1,
                                Items(Before)[f + 1])

\* C12: move(p, from, to) on an array of length n works with from and to
\* normalized each on its own: a negative m becomes n + m, or 0 when
\* m < -n, and m >= n becomes n - 1; when both come out equal the call
\* changes nothing and emits no event, otherwise the item at the
\* normalized from goes to the normalized to and the last event says so.
MoveNormalization ==
  (last.op = "move" /\ IsArray(Before))
  => IF Normalized(Before.len, last.from) = Normalized(Before.len, last.to)
     THEN data = last.pre /\ log = <<>>
     ELSE MovesFromTo(Normalized(Before.len, last.from), Normalized(Before.len, last.to))

\* A move from a negative index to one past the end that both name the
\* last item, and so does nothing.
MoveNormalizationWitness ==
  /\ last.op = "move"
  /\ IsArray(Before)
  /\ Before.len = 3
  /\ last.from = 0 - 1
  /\ last.to = 3
  /\ data = last.pre
  /\ log = <<>>

\* A move from before the start to past the end, which takes the first
\* item to the last place.
MoveNormalizationClamped ==
  /\ last.op = "move"
  /\ IsArray(Before)
  /\ Before.len = 3
  /\ last.from = 0 - 4
  /\ last.to = 3
  /\ Items(After)[3] = Items(Before)[1]

\* C13: unset() with no path or with the empty path replaces the root by
\* an empty object and emits one unset event for every value that was
\* under the old root, children before parents.
RootUnset ==
  (last.op = "unset" /\ last.path = S(<<>>))
  => /\ data = Obj(<<>>, <<>>)
     /\ IsObject(last.pre) => Changes = TeardownKeys(<<>>, last.pre, 1)

\* What the call does instead: nothing.
RootUnsetIgnored ==
  (last.op = "unset" /\ last.path = S(<<>>))
  => (data = last.pre /\ log = <<>> /\ ~last.threw)

\* An unset with the empty path on a root that holds values.
RootUnsetWitness ==
  /\ last.op = "unset"
  /\ last.path = S(<<>>)
  /\ last.pre.t = "obj"
  /\ Len(last.pre.keys) = 2

\* The value an unset call names, as it was before the call.
Unsetting == ValueAt(last.pre, Segments(last.path))

\* C14: unset(p) on an existing key of a plain object deletes that key and
\* nothing else; it emits one unset event for every descendant of the
\* removed value, children before parents, then one for p itself, each
\* with the old value, and no other event.
ObjectUnset ==
  (/\ last.op = "unset"
   /\ last.path # S(<<>>)
   /\ ParentAt(last.pre, last.path).t = "obj"
   /\ HasOwn(ParentAt(last.pre, last.path), Last(Segments(last.path))))
  => /\ data = PutAtLoc(last.pre, Front(Segments(last.path)),
                        DelKey(ParentAt(last.pre, last.path), Last(Segments(last.path))))
     /\ Changes = Teardown(Segments(last.path), Unsetting)

\* The same for every path but the integer 0.
ObjectUnsetOffIntegerZero == last.path = N(0) \/ ObjectUnset

\* An unset of a key that holds an object, beside a key that stays.
ObjectUnsetWitness ==
  /\ last.op = "unset"
  /\ ~last.path.num
  /\ ParentAt(last.pre, last.path).t = "obj"
  /\ Len(ParentAt(last.pre, last.path).keys) = 2
  /\ Unsetting.t = "obj"
  /\ Len(ParentAt(data, last.path).keys) = 1
  /\ Cardinality(Of("unset")) > 1

\* The state a second unset of the same path leaves.
UnsetAgain == Unset(Start(data, pathCache), last.path)

\* Whether that second call changes no data and emits no event.
UnsetAgainIdle == UnsetAgain.data = data /\ UnsetAgain.log = <<>>

IdempotentUnsetUnderArray ==
  /\ last.op = "unset"
  /\ IsArray(ParentAt(last.pre, last.path))
  /\ ParentAt(last.pre, last.path).len = 3
  /\ ParentAt(data, last.path).len = 2
  /\ ParentAt(UnsetAgain.data, last.path).len = 1

\* The value a patch call names, as it was before the call.
Patching == ValueAt(last.pre, Segments(last.path))

\* The nested keys of cur that a merge with d leaves alone: those d does
\* not provide, at a level down to which cur and d are both objects, and
\* all that lies under them.
Kept(cur, d) ==
  {q \in KeyPaths(cur) :
     \E j \in 1..Len(q) :
       /\ ValueAt(d, SubSeq(q, 1, j)) = Undef
       /\ \A i \in 1..(j - 1) : IsObject(ValueAt(d, SubSeq(q, 1, i)))}

\* C16: patch(p, d), the value at p and d both being objects or arrays,
\* merges: every key the value at p had is still there, the keys d does
\* not provide keep their values, and no unset event is emitted for a key
\* that d does not provide.
PatchMerge ==
  (last.op = "patch" /\ IsObject(Patching) /\ IsObject(last.value))
  => /\ \A i \in 1..Len(Patching.keys) : HasOwn(After, Patching.keys[i])
     /\ \A q \in Kept(Patching, last.value) : ValueAt(After, q) = ValueAt(Patching, q)
     /\ \A i \in Of("unset") : \A q \in Kept(Patching, last.value) :
          Changes[i].loc # Segments(last.path) \o q

\* The same for every path but the integer 0.
PatchMergeOffIntegerZero == last.path = N(0) \/ PatchMerge

\* A patch that merged into an object with a key it did not provide, and
\* replaced an object below another key with unset events.
PatchMergeWitness ==
  /\ last.op = "patch"
  /\ ~last.path.num
  /\ Patching.t = "obj"
  /\ last.value.t = "obj"
  /\ Kept(Patching, last.value) # {}
  /\ Of("unset") # {}
  /\ Of("set") # {}

\* C17: patch(p, s) with a non-empty p, the value at p being an object or
\* array and s a scalar, puts s at p and emits one unset event for every
\* descendant of the old value, children before parents, none for p
\* itself, and then exactly one set event at p with s and the old value.
PatchReplace ==
  (/\ last.op = "patch"
   /\ last.path # S(<<>>)
   /\ IsObject(Patching)
   /\ ~IsObject(last.value))
  => /\ After = last.value
     /\ Changes = TeardownKeys(Segments(last.path), Patching, 1)
                  \o <<Change("set", Segments(last.path), last.value, Patching, Undef)>>

\* The same for every path but the integer 0.
PatchReplaceOffIntegerZero == last.path = N(0) \/ PatchReplace

\* A patch of a number over an object of two keys: two unset events and
\* one set event.
PatchReplaceWitness ==
  /\ last.op = "patch"
  /\ ~last.path.num
  /\ Patching.t = "obj"
  /\ Len(Patching.keys) = 2
  /\ last.value = Num(7)
  /\ After = Num(7)
  /\ Cardinality(Of("unset")) = 2
  /\ Cardinality(Of("set")) = 1

\* A set that names an index of an array: the array before and after the
\* call, and the index.
SetsIndex ==
  /\ last.op = "set"
  /\ last.path # S(<<>>)
  /\ IsArray(ParentAt(last.pre, last.path))
  /\ IsIndexKey(Last(Segments(last.path)))

ArrayBefore == ParentAt(last.pre, last.path)

ArrayAfter == ParentAt(data, last.path)

SetIndex == ParseInt(Last(Segments(last.path))).n

\* C18: a set at an index k of an array past its length n extends the
\* array so that each of the slots n..k-1 holds null, not a missing or
\* undefined slot, and slot k holds the value.
NullPlaceholders ==
  (SetsIndex /\ SetIndex > ArrayBefore.len)
  => /\ \A i \in ArrayBefore.len..(SetIndex - 1) :
          GetKey(ArrayAfter, IntToStr(i)) = Null
     /\ GetKey(ArrayAfter, IntToStr(SetIndex)) = last.value

\* What the write does instead: the array grows to k + 1 with slot k
\* holding the value and the slots n..k-1 left empty, reading undefined.
EmptyPlaceholders ==
  (SetsIndex /\ SetIndex > ArrayBefore.len)
  => /\ ArrayAfter.len = SetIndex + 1
     /\ \A i \in ArrayBefore.len..(SetIndex - 1) :
          /\ ~HasOwn(ArrayAfter, IntToStr(i))
          /\ GetKey(ArrayAfter, IntToStr(i)) = Undef
     /\ GetKey(ArrayAfter, IntToStr(SetIndex)) = last.value

\* A set of a number past the end of an array.
NullPlaceholdersWitness ==
  /\ SetsIndex
  /\ SetIndex > ArrayBefore.len
  /\ last.value = Num(7)
  /\ ArrayAfter.len = SetIndex + 1

\* The insert events of the slots n..k of the array a at loc, lowest index
\* first, each with what the slot holds and its index.
Inserts(loc, a, n, k) ==
  [j \in 1..(k - n + 1) |->
     Change("insert", loc, GetKey(a, IntToStr(n + j - 1)), Num(n + j - 1), Undef)]

\* C19: a set at an index k of an array of length n <= k emits, after all
\* its unset and set events, exactly k - n + 1 insert events at the path of
\* the array, one for each of the new slots n..k in ascending order, each
\* with what the slot holds and its index; a set at an index inside the
\* length emits no insert event.
InsertsOnExtend ==
  SetsIndex
  => IF SetIndex >= ArrayBefore.len
     THEN /\ Len(Changes) >= SetIndex - ArrayBefore.len + 1
          /\ SubSeq(Changes, Len(Changes) - (SetIndex - ArrayBefore.len), Len(Changes))
               = Inserts(Front(Segments(last.path)), ArrayAfter, ArrayBefore.len, SetIndex)
          /\ \A i \in 1..(Len(Changes) - (SetIndex - ArrayBefore.len) - 1) :
               Changes[i].kind \in {"set", "unset"}
     ELSE Of("insert") = {}

\* A set of an object one slot past the end of an array: its set events,
\* then two insert events.
InsertsOnExtendWitness ==
  /\ SetsIndex
  /\ SetIndex = ArrayBefore.len + 1
  /\ IsObject(last.value)
  /\ Cardinality(Of("set")) > 1
  /\ Cardinality(Of("insert")) = 2

\* A set over an item of an array, with set events and no insert event.
InsertsOnExtendInside ==
  /\ SetsIndex
  /\ SetIndex < ArrayBefore.len
  /\ Of("set") # {}
  /\ Of("insert") = {}

\* The events a set(path, value) after the call would emit.
LaterSet(path, value) == Set(Start(data, pathCache), path, value).log

\* C20: clear() replaces the root by an empty object, empties the path
\* cache and emits no event; afterwards a mutation invokes none of the
\* subscriptions registered before it.
ClearSilences ==
  last.op = "clear"
  => /\ data = Obj(<<>>, <<>>)
     /\ pathCache = NoCache
     /\ log = <<>>
     /\ \A path \in Paths : \A value \in Values :
          \A i \in 1..Len(LaterSet(path, value)) :
            last.had \cap Heard(LaterSet(path, value)[i]) = {}

\* A clear() of data under a subscription, after which a set still emits
\* the event of the subscribed name.
ClearSilencesWitness ==
  /\ last.op = "clear"
  /\ last.pre # Obj(<<>>, <<>>)
  /\ \E h \in last.had : \E path \in Paths : \E value \in Values :
       \E i \in 1..Len(LaterSet(path, value)) :
         /\ h.name.q
         /\ LaterSet(path, value)[i].name = h.name

\* The running state of a call after the last one, had the events cache
\* been trie.
Over(trie) == [Start(data, pathCache) EXCEPT !.trie = trie]

\* The events among es delivered to the subscription h, in order.
Told(h, es) == SelectSeq(es, LAMBDA e : e.name = h.name)

\* The subscriptions the call ended.
Ended == last.had \ subs

\* C21: once a handle is unsubscribed no later mutation invokes its
\* callback, and every other live subscription, of the same pattern or of a
\* pattern sharing trailing segments with it included, is invoked by a later
\* mutation with exactly the events it would have been invoked with before.
UnsubscribeSilences ==
  last.op = "off"
  => /\ Cardinality(Ended) = 1
     /\ subs \subseteq last.had
     /\ \A path \in Paths :
          /\ \A value \in Values :
               /\ \A h \in subs :
                    Told(h, Set(Over(eventsCache), path, value).log)
                      = Told(h, Set(Over(last.heard), path, value).log)
               /\ \A i \in 1..Len(LaterSet(path, value)) :
                    Ended \cap Heard(LaterSet(path, value)[i]) = {}
          /\ \A h \in subs :
               Told(h, Unset(Over(eventsCache), path).log)
                 = Told(h, Unset(Over(last.heard), path).log)

\* The same where no subscribed pattern ended in an array index 0.
UnsubscribeSilencesOffIndexZero ==
  (\E h \in last.had : h.parts # <<>> /\ Last(h.parts) = N(0))
  \/ UnsubscribeSilences

\* An unsubscribe that leaves live a subscription of another name ending in
\* the same segment, which a later set still invokes.
UnsubscribeSilencesWitness ==
  /\ last.op = "off"
  /\ \E d \in Ended : \E h \in subs :
       /\ h.name # d.name
       /\ Len(d.parts) > 1
       /\ Len(h.parts) > 1
       /\ Last(h.parts) = Last(d.parts)
       /\ \E path \in Paths : \E value \in Values :
            Told(h, LaterSet(path, value)) # <<>>

\* The proper prefixes of the path of the call that hold a value v.
Through(v) ==
  {k \in 0..(Len(Segments(last.path)) - 1) :
     ValueAt(last.pre, SubSeq(Segments(last.path), 1, k)) = v}

\* C22: get(p) never throws, changes no data and emits nothing; it returns
\* the value at p, which is undefined whenever a segment along p is missing,
\* an intermediate value being null or a scalar included, and the root for
\* the empty path.
PureRead ==
  last.op = "get"
  => /\ ~last.threw
     /\ data = last.pre
     /\ log = <<>>
     /\ last.ret = Before
     /\ (Segments(last.path) = <<>> => last.ret = data)

\* The same where no intermediate value of the path is null.
PureReadOffNull == Through(Null) # {} \/ PureRead

\* A get of a path that leads through a null.
PureReadWitness ==
  /\ last.op = "get"
  /\ Through(Null) # {}
  /\ Before = Undef

\* A get of a path that leads through a number, which returns undefined.
PureReadThroughScalar ==
  /\ last.op = "get"
  /\ \E k \in 1..(Len(Segments(last.path)) - 1) :
       ValueAt(last.pre, SubSeq(Segments(last.path), 1, k)).t = "num"
  /\ last.ret = Undef

Mutations == {"set", "patch", "unset", "insert", "move", "remove"}

\* Some intermediate segment of the path of the call resolves to a missing
\* value, to null or to a scalar.
Invalid ==
  \E k \in 1..(Len(Segments(last.path)) - 1) :
    ~IsObject(ValueAt(last.pre, SubSeq(Segments(last.path), 1, k)))

\* C23: no mutation call throws on an invalid path: where an intermediate
\* segment resolves to a missing value, to null or to a scalar, the call
\* returns normally, leaves the data unchanged and emits no event.
InvalidPathIgnored ==
  (last.op \in Mutations /\ Invalid)
  => /\ ~last.threw
     /\ data = last.pre
     /\ log = <<>>

\* The same where no intermediate value of the path is null.
InvalidPathIgnoredOffNull ==
  (\E k \in Through(Null) : k > 0) \/ InvalidPathIgnored

\* Even through a null, a call that fails changes no data and emits nothing.
InvalidPathHarmless ==
  (last.op \in Mutations /\ Invalid) => (data = last.pre /\ log = <<>>)

\* A set of a path that leads through a null two segments above its end.
InvalidPathIgnoredWitness ==
  /\ last.op = "set"
  /\ Len(Segments(last.path)) = 3
  /\ ValueAt(last.pre, SubSeq(Segments(last.path), 1, 1)) = Null

\* C24: an insert, a move or a remove whose path resolves to anything but an
\* array (a plain object, a scalar, null or nothing) returns normally,
\* leaves the data unchanged and emits no event.
NonArrayIgnored ==
  (last.op \in {"insert", "move", "remove"} /\ ~IsArray(Before))
  => /\ ~last.threw
     /\ data = last.pre
     /\ log = <<>>

\* An insert at a path that holds a plain object.
NonArrayIgnoredWitness ==
  /\ last.op = "insert"
  /\ last.path # S(<<>>)
  /\ IsObject(Before)
  /\ ~IsArray(Before)

\* A remove at a path that holds null, and a move at one that holds a number.
NonArrayIgnoredScalars ==
  \/ last.op = "remove" /\ Before = Null
  \/ last.op = "move" /\ Before.t = "num"

\* The set events among the changes of the call, in order.
Sets == SelectSeq(Changes, LAMBDA c : c.kind = "set")

\* The call wrote an object or array at a path, under an object or array,
\* where the value before was absent or a scalar.
Creating ==
  /\ last.op \in {"set", "patch"}
  /\ ~last.threw
  /\ Segments(last.path) # <<>>
  /\ IsObject(ParentAt(last.pre, last.path))
  /\ IsObject(last.value)
  /\ ~IsObject(Before)

\* C25: an object or array written where the value before was absent or a
\* scalar emits one set event for every nested property and one for the
\* written path itself, every child before what contains it, and no unset
\* event.
ObjectCreation ==
  Creating
  => /\ Sets = [Created(Segments(last.path), last.value)
                 EXCEPT ![Len(Created(Segments(last.path), last.value))].a2 = Before]
     /\ Of("unset") = {}

\* The same where the path is not the integer 0.
ObjectCreationOffIntegerZero == last.path = N(0) \/ ObjectCreation

\* A set of an object with a nested object where nothing was: three events.
ObjectCreationWitness ==
  /\ Creating
  /\ last.op = "set"
  /\ Before = Undef
  /\ Len(Created(Segments(last.path), last.value)) = 3

\* A patch of an array over a number.
ObjectCreationByPatch ==
  /\ Creating
  /\ last.op = "patch"
  /\ Before.t = "num"
  /\ IsArray(last.value)
  /\ Len(Sets) = 3

\* The call is a set of an object or array over an object or array.
Replacing ==
  /\ last.op = "set"
  /\ ~last.threw
  /\ IsObject(last.value)
  /\ IsObject(Before)

\* The key sequences below the path of the call at which both the value
\* before and the value written hold an object or array.
BothObjects ==
  {q \in KeyPaths(last.value) \cup {<<>>} :
     IsObject(ValueAt(last.value, q)) /\ IsObject(ValueAt(Before, q))}

\* C26 as stated: whenever the old and the new value are both objects or
\* arrays, one set event is emitted for that path with the new and the old
\* value, whether they are deeply equal or not.
ObjectOverObjectAnnounced ==
  Replacing
  => \A q \in BothObjects :
       Cardinality({i \in Of("set") :
                      /\ Changes[i].loc = Segments(last.path) \o q
                      /\ Changes[i].a1 = ValueAt(last.value, q)
                      /\ Changes[i].a2 = ValueAt(Before, q)}) = 1

\* C26: whenever the old and the new value are both objects or arrays, no
\* set event is emitted for them: no set event of the call carries an object
\* or array both as its new and as its old value, and only the properties
\* below that differ are announced.
ObjectOverObjectSilent ==
  Replacing
  => \A i \in Of("set") : ~(IsObject(Changes[i].a1) /\ IsObject(Changes[i].a2))

\* No set event is emitted at a path where both values are objects or
\* arrays, where the path of the call is not the integer 0.
ObjectOverObjectSilentAtPath ==
  (Replacing /\ last.path # N(0))
  => \A q \in BothObjects :
       \A i \in Of("set") : Changes[i].loc # Segments(last.path) \o q

\* A set of an object over a different object, with a set event for a
\* property below the path.
ObjectOverObjectWitness ==
  /\ Replacing
  /\ last.value # Before
  /\ Segments(last.path) # <<>>
  /\ \E i \in Of("set") : Above(Segments(last.path), Changes[i].loc)

\* What a resolution of the raw path after the call returns.
Resolved(path) == MakePathParts(Start(data, pathCache), path).parts

\* The calls that hand their raw path to _makePathParts and resolve it.
Resolving ==
  /\ last.op \in {"get", "set", "patch", "unset"}
  /\ S(ToStr(last.path)) \in DOMAIN pathCache

\* C27: the segments a raw path resolves to are fixed at its first
\* resolution: after a call that resolved it, whatever call comes next
\* short of clear(), a resolution of the same raw path, string or integer,
\* returns the same segments as before that call.
PathPartsFixed ==
  [][(Resolving /\ last'.op # "clear")
     => \E path \in {last.path} : Resolved(path)' = Resolved(path)]_vars

\* Short of clear() and of get, set, patch and unset with an integer path,
\* no call changes an entry of the path cache.
PathCacheKept ==
  [][(last'.op # "clear"
      /\ ~(last'.op \in {"get", "set", "patch", "unset"} /\ last'.path.num))
     => \A k \in DOMAIN pathCache :
          k \in DOMAIN pathCache' /\ pathCache'[k] = pathCache[k]]_vars

\* A set that replaces an object root by an array while the path 0 is in
\* the cache with a string segment.
PathPartsFixedWitness ==
  /\ last.op = "set"
  /\ last.path = S(<<>>)
  /\ ~IsArray(last.pre)
  /\ IsArray(data)
  /\ S(<<"0">>) \in DOMAIN pathCache
  /\ pathCache[S(<<"0">>)] = <<S(<<"0">>)>>

\* The trie nodes the pattern of a subscription passes through.
NodesOf(h) == {TrieKey(h.parts, i) : i \in 1..Len(h.parts)}

\* C28: after any sequence of subscriptions and unsubscriptions of live
\* handles, every node of the events cache counts the live subscriptions
\* whose pattern passes through it and, as its end, those that end exactly
\* there; every node a live subscription passes through exists, no node has
\* a counter of zero, and with no live subscription the trie is empty.
TrieCounts ==
  /\ \A k \in DOMAIN eventsCache :
       /\ eventsCache[k].counter = Cardinality({h \in subs : k \in NodesOf(h)})
       /\ eventsCache[k].end
            = Cardinality({h \in subs : h.parts # <<>> /\ k = TrieKey(h.parts, 1)})
       /\ eventsCache[k].counter > 0
  /\ \A h \in subs : NodesOf(h) \subseteq DOMAIN eventsCache
  /\ (subs = {} => eventsCache = NoTrie)

\* An unsubscribe of a pattern of two segments that leaves the node of its
\* last segment to a live subscription of another pattern, and deletes the
\* node of its first.
TrieCountsWitness ==
  /\ last.op = "off"
  /\ \E d \in Ended : \E h \in subs :
       /\ Len(d.parts) = 2
       /\ h.parts # d.parts
       /\ TrieKey(d.parts, 2) \in NodesOf(h)
       /\ TrieKey(d.parts, 1) \notin DOMAIN eventsCache
       /\ eventsCache[TrieKey(d.parts, 2)].counter = 1

\* An unsubscribe of the last live subscription.
TrieCountsEmptied ==
  /\ last.op = "off"
  /\ subs = {}
  /\ last.heard # NoTrie

\* C29: from an object or array root, after any sequence of calls the root
\* is an object or an array, never a scalar or null; a set or a patch of the
\* root with a value that is not an object or array changes nothing and
\* emits nothing.
RootIsContainer ==
  /\ IsObject(data)
  /\ (last.op \in {"set", "patch"} /\ last.path = S(<<>>) /\ ~IsObject(last.value))
     => /\ ~last.threw
        /\ data = last.pre
        /\ log = <<>>

\* A patch of a root that holds something with null.
RootIsContainerWitness ==
  /\ last.op = "patch"
  /\ last.path = S(<<>>)
  /\ last.value = Null
  /\ last.pre # Obj(<<>>, <<>>)
  /\ last.pre # Arr(<<>>)

\* A set of an object root with an array, which replaces it.
RootIsContainerReplaced ==
  /\ last.op = "set"
  /\ last.path = S(<<>>)
  /\ IsArray(data)
  /\ ~IsArray(last.pre)

\* The segments of pattern p come before those of q in the depth-first
\* scan: from the last segment backward they agree up to a segment where p
\* has the exact segment and q the wildcard.
Precedes(p, q) ==
  /\ Len(p) = Len(q)
  /\ \E k \in 1..Len(p) :
       /\ \A m \in (k + 1)..Len(p) : p[m] = q[m]
       /\ p[k] # <<"*">>
       /\ q[k] = <<"*">>

\* The qualified events among es whose pattern matches their change.
Matched(es) ==
  SelectSeq(es, LAMBDA e : e.name.q /\ Matches(Split(e.name.pat), LocOf(e.parts)))

\* The patterns of the qualified events among es, in order.
QualifiedIn(es) ==
  LET qs == SelectSeq(es, LAMBDA e : e.name.q)
  IN  [i \in 1..Len(qs) |-> qs[i].name.pat]

\* Every one of the four patterns over a.b has a live subscription.
AllFour == \A n \in DeepNames : \E h \in subs : h.name = n

\* Of the matched events es, those of one change come in the order of the
\* depth-first scan, none twice.
InScanOrder(es) ==
  \A i, j \in 1..Len(es) :
    (i < j /\ es[i].chg = es[j].chg)
    => Precedes(Split(es[i].name.pat), Split(es[j].name.pat))

\* A set of a scalar at a.b, under a plain object a, that changes the value.
ChangesAB(path, value) ==
  /\ path = S(<<"a", ".", "b">>)
  /\ ~IsObject(value)
  /\ IsObject(ValueAt(data, <<<<"a">>>>))
  /\ ~IsArray(ValueAt(data, <<<<"a">>>>))
  /\ ~IsObject(ValueAt(data, Segments(path)))
  /\ ValueAt(data, Segments(path)) # value

\* C30: of the qualified events of one change, that of a pattern which
\* comes first in the depth-first scan, from the last segment backward and
\* exact segment before wildcard, is emitted first, each pattern once; with
\* all four patterns subscribed a change at a.b emits 'a.b', '*.b', 'a.*',
\* '*.*' in this order.
DepthFirstOrder ==
  \A path \in Paths : \A value \in Values :
    LET es == LaterSet(path, value)
    IN  /\ InScanOrder(Matched(es))
        /\ (AllFour /\ ChangesAB(path, value))
           => QualifiedIn(es)
                = << <<"a", ".", "b">>, <<"*", ".", "b">>, <<"a", ".", "*">>,
                     <<"*", ".", "*">> >>

\* The order alone, for a later set and a later unset.
ScanOrder ==
  \A path \in Paths :
    /\ \A value \in Values : InScanOrder(Matched(LaterSet(path, value)))
    /\ InScanOrder(Matched(Unset(Start(data, pathCache), path).log))

\* All four patterns subscribed over data in which a set changes a.b.
DepthFirstOrderWitness ==
  /\ AllFour
  /\ \E value \in Scalars :
       Len(QualifiedIn(LaterSet(S(<<"a", ".", "b">>), value))) = 4

\* The catch-all events of the call, with the data their handlers find.
Seen == SelectSeq(log, LAMBDA e : ~e.name.q)

\* What get of the item i of the array at loc returns to a handler of e.
ItemSeen(e, i) ==
  IF i.t = "num" THEN ValueAt(e.at, Append(LocOf(e.parts), IntToStr(i.v))) ELSE Undef

\* C31: handlers find the tree at a fixed point of the mutation: at a set,
\* insert or move event the data holds the new state, so that get of the
\* path or index of the event returns its value; at the unset events of
\* unset and remove the data still holds the value being removed, and at
\* their move and remove events the item is already spliced out.
HandlersSeeFixedPoint ==
  \A i \in 1..Len(Seen) :
    /\ Seen[i].name.kind = "set"
       => ValueAt(Seen[i].at, LocOf(Seen[i].parts)) = Seen[i].a1
    /\ Seen[i].name.kind = "insert" => ItemSeen(Seen[i], Seen[i].a2) = Seen[i].a1
    /\ Seen[i].name.kind = "move" => ItemSeen(Seen[i], Seen[i].a3) = Seen[i].a1
    /\ last.op \in {"unset", "remove"}
       => /\ Seen[i].name.kind = "unset"
             => /\ Seen[i].at = last.pre
                /\ ValueAt(Seen[i].at, LocOf(Seen[i].parts)) = Seen[i].a1
          /\ Seen[i].name.kind \in {"move", "remove"}
             => /\ Seen[i].at = data
                /\ data # last.pre

\* The same where the path of the call is not the integer 0 and no insert
\* event carries NaN for an index.
HandlersSeeFixedPointOffIntegerZero ==
  \/ last.path = N(0)
  \/ \E i \in 1..Len(Seen) : Seen[i].name.kind = "insert" /\ Seen[i].a2.t = "nan"
  \/ HandlersSeeFixedPoint

\* An unset of an item of an array, with unset, move and remove events.
HandlersSeeFixedPointWitness ==
  /\ last.op = "unset"
  /\ \E i, j, k \in 1..Len(Seen) :
       /\ Seen[i].name.kind = "unset"
       /\ Seen[j].name.kind = "move"
       /\ Seen[k].name.kind = "remove"

\* A set of an object over an object, with unset and set events.
HandlersSeeFixedPointOfSet ==
  /\ last.op = "set"
  /\ Of("unset") # {}
  /\ Of("set") # {}

\* What a handler can tell of a call: the data it leaves, the events it
\* emits and whether it throws.
Outcome(st) == [data |-> st.data, log |-> st.log, threw |-> st.threw]

\* From the state reached, the calls with the index k as an integer do what
\* the calls with its string form do.
SameAsString(k) ==
  /\ \A value \in Values :
       /\ Outcome(Set(Start(data, pathCache), N(k), value))
            = Outcome(Set(Start(data, pathCache), S(IntToStr(k)), value))
       /\ Outcome(Patch(Start(data, pathCache), N(k), value))
            = Outcome(Patch(Start(data, pathCache), S(IntToStr(k)), value))
  /\ Outcome(Unset(Start(data, pathCache), N(k)))
       = Outcome(Unset(Start(data, pathCache), S(IntToStr(k))))
  /\ Get(Start(data, pathCache), N(k)).ret
       = Get(Start(data, pathCache), S(IntToStr(k))).ret

\* C32: on a root array, set, patch, unset and get with an integer index,
\* 0 included, leave the same data and emit the same events, with the same
\* kinds, path segments and values, as the same call with the string form
\* of the index.
IntegerAsString == IsArray(data) => \A k \in 0..1 : SameAsString(k)

\* With the index 0 the two forms leave the same data and get returns the same.
IntegerAsStringData ==
  IsArray(data)
  => /\ \A value \in Values :
          /\ Set(Start(data, pathCache), N(0), value).data
               = Set(Start(data, pathCache), S(<<"0">>), value).data
          /\ Patch(Start(data, pathCache), N(0), value).data
               = Patch(Start(data, pathCache), S(<<"0">>), value).data
     /\ Unset(Start(data, pathCache), N(0)).data
          = Unset(Start(data, pathCache), S(<<"0">>)).data
     /\ Get(Start(data, pathCache), N(0)).ret = Get(Start(data, pathCache), S(<<"0">>)).ret

\* The same for the index 1 alone.
IntegerAsStringOffZero == IsArray(data) => SameAsString(1)

\* A set of an object at the integer index 0 of a root array, with events
\* for the nested properties, after which the calls are compared again.
IntegerAsStringWitness ==
  /\ last.op = "set"
  /\ last.path = N(0)
  /\ IsArray(last.pre)
  /\ IsArray(data)
  /\ IsObject(last.value)
  /\ Len(Seen) > 1

\* The keys of the patch that the value at the path did not have, in order.
AddedKeys == SelectSeq(last.value.keys, LAMBDA k : ~HasOwn(Patching, k))

RECURSIVE Additions(_)
\* What the claim has a patch emit for the keys ks it adds: for each the
\* set events of the new value and, under an array, one insert event.
Additions(ks) ==
  IF ks = <<>> THEN <<>>
  ELSE Created(Append(Segments(last.path), ks[1]), GetKey(last.value, ks[1]))
       \o (IF IsArray(Patching)
           THEN <<Change("insert", Segments(last.path), GetKey(last.value, ks[1]),
                         Num(ParseInt(ks[1]).n), Undef)>>
           ELSE <<>>)
       \o Additions(Tail(ks))

\* The call is a patch of an array into an array, or of an object or array
\* into a plain object.
PatchAdding ==
  /\ last.op = "patch"
  /\ ~last.threw
  /\ IsObject(Patching)
  /\ IsObject(last.value)
  /\ IsArray(Patching) => IsArray(last.value)

\* C33: a patch that adds an absent index k to the array at p emits the set
\* events of the new item at p.k and then one insert event at p with the
\* value and k; one that adds a key to a plain object emits the set events
\* only.  The additions come last, in the order of the keys.
PatchAdds ==
  PatchAdding
  => /\ Len(Changes) >= Len(Additions(AddedKeys))
     /\ SubSeq(Changes, Len(Changes) - Len(Additions(AddedKeys)) + 1, Len(Changes))
          = Additions(AddedKeys)
     /\ Cardinality({i \in Of("insert") : Changes[i].loc = Segments(last.path)})
          = (IF IsArray(Patching) THEN Len(AddedKeys) ELSE 0)

\* The same for every path but the integer 0.
PatchAddsOffIntegerZero == last.path = N(0) \/ PatchAdds

\* A patch that adds an index to an array that holds something.
PatchAddsWitness ==
  /\ PatchAdding
  /\ IsArray(Patching)
  /\ Patching.len > 0
  /\ AddedKeys # <<>>
  /\ Of("insert") # {}

\* A patch that adds a key to a plain object that holds something.
PatchAddsToObject ==
  /\ PatchAdding
  /\ ~IsArray(Patching)
  /\ Patching.keys # <<>>
  /\ AddedKeys # <<>>
  /\ Of("insert") = {}

\* The subscription is to one path, with no wildcard.
Exact(h) ==
  /\ h.name.q
  /\ \A k \in 1..Len(Split(h.name.pat)) : Split(h.name.pat)[k] # <<"*">>

\* The events of the call that are at the path of h and of its kind.
EventsFor(h) ==
  {i \in 1..Len(log) :
     /\ ~log[i].name.q
     /\ log[i].name.kind = h.name.kind
     /\ LocOf(log[i].parts) = Split(h.name.pat)}

\* C34: a live subscription to an exact path and a kind is invoked, once,
\* for every event of the kind that the container emits at the path,
\* whatever calls came between the subscription and the event.
ExactSubscriptionInvoked ==
  \A h \in subs :
    Exact(h) => \A i \in EventsFor(h) : Cardinality(Invocations(i, h.name)) = 1

\* The same for the paths none of whose segments is 0.
ExactSubscriptionInvokedOffZero ==
  \A h \in subs :
    (Exact(h) /\ \A k \in 1..Len(Split(h.name.pat)) : Split(h.name.pat)[k] # <<"0">>)
    => \A i \in EventsFor(h) : Cardinality(Invocations(i, h.name)) = 1

\* A set at a.b under a subscription to a.b, which is invoked.
ExactSubscriptionInvokedWitness ==
  \E h \in subs :
    /\ h.name = Qualified(<<"a", ".", "b">>, "set")
    /\ last.op = "set"
    /\ \E i \in EventsFor(h) : Invocations(i, h.name) # {}

\* The item i of the array at the path p of the state reached.
ItemAt(p, i) == ValueAt(data, Append(Segments(p), IntToStr(i)))

\* The path of the item i of the array at p, as unset takes it.
ItemPath(p, i) ==
  S((IF p = S(<<>>) THEN <<>> ELSE ToStr(p) \o <<".">>) \o IntToStr(i))

\* C35: for an array at p and an index i of it that holds a value,
\* unset('p.i') and remove(p, i) leave the same data and emit the same
\* events: those of the teardown, the move events highest index first, then
\* one remove event with the removed value and i.
UnsetAsRemove ==
  \A p \in {S(<<>>), S(<<"a">>)} : \A i \in 0..MaxIndex :
    (IsArray(ValueAt(data, Segments(p))) /\ ItemAt(p, i) # Undef)
    => Outcome(Unset(Start(data, pathCache), ItemPath(p, i)))
         = Outcome(Remove(Start(data, pathCache), p, i))

\* The path cache holds for the path what a resolution against the data of
\* the state reached gives, or nothing.
Fresh(path) ==
  path \in DOMAIN pathCache
  => pathCache[path] = ResolveFrom(data, Split(ToStr(path)), 1)

\* The same where the path cache holds no stale segments for the item.
UnsetAsRemoveFresh ==
  \A p \in {S(<<>>), S(<<"a">>)} : \A i \in 0..MaxIndex :
    (IsArray(ValueAt(data, Segments(p))) /\ ItemAt(p, i) # Undef /\ Fresh(ItemPath(p, i)))
    => Outcome(Unset(Start(data, pathCache), ItemPath(p, i)))
         = Outcome(Remove(Start(data, pathCache), p, i))

\* An unset of the first of several items of the array at a, after which
\* the array still holds an item to compare the two calls on.
UnsetAsRemoveWitness ==
  /\ last.op = "unset"
  /\ last.path = S(<<"a", ".", "0">>)
  /\ IsArray(Before)
  /\ Cardinality(Of("move")) > 0
  /\ Cardinality(Of("remove")) = 1
  /\ ItemAt(S(<<"a">>), 0) # Undef

\* The indices of an array value.
IndicesOf(a) == IF IsArray(a) THEN 0..(a.len - 1) ELSE {}

\* The move event e names two different indices, one of the array before
\* the call and one of the array after it, and carries the item that a
\* handler finds at the second.
MoveSound(e) ==
  /\ e.a2.t = "num"
  /\ e.a3.t = "num"
  /\ e.a2 # e.a3
  /\ e.a2.v \in IndicesOf(ValueAt(last.pre, LocOf(e.parts)))
  /\ e.a3.v \in IndicesOf(ValueAt(data, LocOf(e.parts)))
  /\ e.a1 = ItemSeen(e, e.a3)

\* C36: every move event that insert, remove, unset or move emits carries
\* two distinct indices, from an index of the array before the call and to
\* an index of the array after it, and the item that is at the index to of
\* the array when the event is emitted.
MoveEventsSound ==
  last.op \in {"insert", "remove", "unset", "move"}
  => \A i \in 1..Len(Seen) : Seen[i].name.kind = "move" => MoveSound(Seen[i])

\* The same for the arrays that hold an item.
MoveEventsSoundOffEmpty ==
  (last.op \in {"insert", "remove", "unset", "move"} /\ ~last.threw)
  => \A i \in 1..Len(Seen) :
       (/\ Seen[i].name.kind = "move"
        /\ ValueAt(last.pre, LocOf(Seen[i].parts)) # Arr(<<>>))
       => MoveSound(Seen[i])

\* A move on the empty array that emitted move events.
MoveEventsSoundWitness ==
  /\ last.op = "move"
  /\ Before = Arr(<<>>)
  /\ Of("move") # {}

\* A remove of the first of three items, with two move events.
MoveEventsSoundOnRemove ==
  /\ last.op = "remove"
  /\ IsArray(Before)
  /\ Before.len = 3
  /\ Cardinality(Of("move")) = 2

\* The number of the items of the sequence s that are v.
Count(s, v) == Cardinality({i \in 1..Len(s) : s[i] = v})

\* C37: move leaves the array with the length it had and with a
\* permutation of the items it had, whatever the array, the empty one
\* included, and whatever the integers from and to.
MovePermutes ==
  (last.op = "move" /\ IsArray(Before))
  => /\ ~last.threw
     /\ IsArray(After)
     /\ After.len = Before.len
     /\ \A v \in {Items(Before)[i] : i \in 1..Before.len}
               \cup {Items(After)[i] : i \in 1..After.len} :
          Count(Items(After), v) = Count(Items(Before), v)

\* The same for the arrays that hold an item.
MovePermutesOffEmpty == (Before = Arr(<<>>)) \/ MovePermutes

\* A move on the empty array with indices that normalize differently.
MovePermutesWitness ==
  /\ last.op = "move"
  /\ Before = Arr(<<>>)
  /\ last.from = 0 - 1
  /\ last.to = 0

\* A move that changed the order of an array of three items.
MovePermutesReordered ==
  /\ last.op = "move"
  /\ IsArray(Before)
  /\ Before.len = 3
  /\ Items(After) # Items(Before)

\* The same patch call made once more on the data it left.
PatchedAgain == Patch(Start(data, pathCache), last.path, last.value)

\* C39: a patch repeated at once with the same path and value leaves the
\* data as it is and emits no event.
PatchIdempotent ==
  last.op = "patch"
  => /\ PatchedAgain.data = data
     /\ PatchedAgain.log = <<>>

\* The same for every value but NaN.
PatchIdempotentOffNaN == (last.value = NaN) \/ PatchIdempotent

\* A patch that wrote NaN and announced it.
PatchIdempotentWitness ==
  /\ last.op = "patch"
  /\ last.value = NaN
  /\ ValueAt(data, Segments(last.path)) = NaN
  /\ log # <<>>

\* A patch that merged an object into the data and emitted events.
PatchIdempotentMerged ==
  /\ last.op = "patch"
  /\ ~last.threw
  /\ IsObject(last.value)
  /\ data # last.pre
  /\ Len(log) > 1

\* C38: whatever a handler of the unset event does to the same array by
\* an insert, a move or a remove, the item that remove(p, i) or
\* unset('p.i') splices out of the array is the one whose teardown was
\* announced and the one its remove event carries.
ReentrantRemoveSameItem ==
  (last.op \in {"remove", "unset"} /\ last.ran)
  => /\ last.spliced = last.announced
     /\ last.carried = last.announced

\* The same without a call from the handler.
ReentrantRemoveQuiet ==
  (last.op \in {"remove", "unset"} /\ last.ran /\ last.handler.op = "none")
  => /\ last.spliced = last.announced
     /\ last.carried = last.announced

\* Without a call from the handler the outcome is that of the plain call.
ReenteredAsPlain ==
  (last.op \in {"remove", "unset"} /\ last.handler.op = "none")
  => LET plain == IF last.op = "remove"
                  THEN Remove(Start(last.pre, NoCache), last.path, last.index)
                  ELSE Unset(Start(last.pre, NoCache), last.path)
     IN  /\ plain.data = data
         /\ plain.log = log
         /\ plain.cache = pathCache
         /\ plain.threw = last.threw

\* A remove of the first of three numbers whose handler inserted an item
\* at the front of the same array.
ReentrantRemoveSameItemWitness ==
  /\ last.op = "remove"
  /\ last.ran
  /\ last.pre = Arr(<<Num(1), Num(2), Num(3)>>)
  /\ last.handler.op = "insert"
  /\ last.handler.index = 0
  /\ last.announced = Num(1)

\* An unset of an array item whose handler removed an item of the array.
ReentrantUnsetWitness ==
  /\ last.op = "unset"
  /\ last.ran
  /\ last.handler.op = "remove"
  /\ last.spliced # last.announced

====
